---------------------------- MODULE Spec2Model ----------------------------
(***************************************************************************)
(* Model of the disposition-form backend:                                  *)
(*   - the portal token service (tokenService.js: getPortalToken and its   *)
(*     process-wide cache),                                                *)
(*   - the VoiceMeetMe notification (voicemeetme.js: updateCallDisposition)*)
(*     and the POST /webhook handler that calls it (webhook.js),           *)
(*   - the certificate rotation of ssl-manager.js.                         *)
(*                                                                         *)
(* Every asynchronous invocation runs to its next await in one step, as    *)
(* the JavaScript event loop does. For getPortalToken, a "call":           *)
(*   getPortalToken  - entry: cache lookup, then the first axios.post      *)
(*   PostResolves    - axios.post resolved with a 2xx JSON body            *)
(*   PostRejects     - axios.post rejected (network error, timeout, non-2xx)*)
(*   TimerFires      - the backoff setTimeout elapsed                      *)
(*   CallerResumes   - the awaiting caller consumed the result             *)
(*   Tick            - wall-clock time passes                              *)
(* The specifications Spec, SpecConcurrent and SpecTenants run the token   *)
(* service alone, SpecWebhook runs the handler and the notification on top *)
(* of it, and SpecSsl runs the rotate command of ssl-manager.js, which is  *)
(* a process of its own.                                                   *)
(***************************************************************************)
EXTENDS Integers, Sequences, FiniteSets, TLC

VARIABLES
    now,        \* Date.now(), in milliseconds
    cache,      \* the module-level Map, as its set of entries [key, value]
    pc,         \* per call: "idle", "awaiting", "sleeping", "returned", "failed"
    tenant,     \* per call: the argument of getPortalToken
    cand,       \* per call: index of the candidate the outer loop is at
    attempt,    \* per call: the inner loop's attempt
    delay,      \* per call: the inner loop's delay
    wakeAt,     \* per call: deadline of the pending backoff timer
    caught,     \* per call: err of the catch block the call is sleeping in
    result,     \* per call: what the promise settled with
    requests,   \* per call (history): urls posted so far, in order
    waits,      \* per call (history): backoff delays slept so far, in order
    failures,   \* per call (history): number of attempts that ended in the catch
    started,    \* number of calls started so far
    ticks,      \* number of clock steps taken so far
    \* voicemeetme.js, one invocation of updateCallDisposition at a time
    upc,        \* "idle", "token", "put", "resolved", "rejected"
    uargs,      \* the arguments tenant, callId, value
    ucaller,    \* who awaits the invocation: "webhook" or "direct"
    uerr,       \* the error the invocation rejected with
    acquired,   \* (history) what getPortalToken returned to the invocation
    puts,       \* (history) the PUT requests the invocation issued
    \* webhook.js, one POST /webhook request at a time
    hpc,        \* "idle", "updating", "notifying", "responded"
    hdata,      \* req.body
    rows,       \* the forms_new table: id -> the columns the handler sets
    response,   \* what was sent through res
    logged,     \* (history) console.error lines of the request
    updated,    \* (history) the UPDATE of the request was executed
    notified,   \* (history) the request called updateCallDisposition
    posts,      \* number of requests and direct invocations so far
    \* ssl-manager.js, one run of the command line at a time
    today,      \* new Date() of the ssl-manager process, in seconds
    files,      \* the certificate files in SSL_DIR: name -> content
    backups,    \* the backup directories in SSL_DIR, oldest first
    spc,        \* "idle", "backup", "generate", "done", "failed"
    sthreshold, \* the argument daysThreshold
    sstatus,    \* what the first checkCertificateStatus() returned
    sresult,    \* what the run returned or threw
    bidx,       \* backupCertificates: index of the file the loop is at
    gstep,      \* generateCertificates: the step it is at
    sops,       \* (history) the run's writes, in order: <<"backup" or
                \* "generate", the file written>>
    filesBefore,  \* (history) files when the run started
    timeSteps,  \* number of clock steps of the ssl-manager process so far
    rotations,  \* number of runs so far
    srun,       \* the function the run called: "rotate" or "getSSLOptions"
    \* the forms_new table as form.js and GET /webhook use it
    forms,      \* the rows in the order of their INSERT: the id is the index
    \* webhook.js, GET /webhook requests in flight over the connection pool
    gpc,        \* per request: "idle", "inserting", "selecting", "responded"
    gquery,     \* per request: req.query
    gconn,      \* per request: the connection that executes its statement
    ginserted,  \* per request (history): id of the row its INSERT made
    gresponse,  \* per request: what was sent through res
    lastInsertId,  \* per connection the pool has opened, in the order of
                \* their opening: the value of LAST_INSERT_ID()
    gets,       \* number of GET /webhook requests so far
    \* form.js, one POST /forms or PUT /forms/:id request at a time
    fpc,        \* "idle", the await the request is at, "responded"
    fop,        \* "create" or "update"
    fid,        \* req.params.id of an update
    fdata,      \* req.body
    ftarget,    \* targetEmail
    fresponse,  \* the status sent through res
    fbefore,    \* (history) the numbers of mails and of rows when the
                \* request arrived
    mails,      \* (history) the calls of transporter.sendMail, in order
    submissions \* number of requests to the form server so far

tokenVars == <<now, cache, pc, tenant, cand, attempt, delay, wakeAt, caught,
               result, requests, waits, failures, started, ticks>>

helperVars == <<upc, uargs, ucaller, uerr, acquired, puts>>

handlerVars == <<hpc, hdata, rows, response, logged, updated, notified>>

hookVars == <<helperVars, handlerVars, posts>>

sslVars == <<today, files, backups, spc, sthreshold, sstatus, sresult, bidx,
             gstep, sops, filesBefore, timeSteps, rotations, srun>>

getVars == <<gpc, gquery, gconn, ginserted, gresponse, lastInsertId, gets>>

formVars == <<fpc, fop, fid, fdata, ftarget, fresponse, fbefore, mails,
              submissions>>

siteVars == <<forms, getVars, formVars>>

vars == <<tokenVars, hookVars, sslVars, siteVars>>

callVars == <<pc, tenant, cand, attempt, delay, wakeAt, caught, result,
              requests, waits, failures>>

-----------------------------------------------------------------------------
(* Bounds of the model *)

\* calls made, and clock steps taken, by the sequential specification
MaxCalls == 3
MaxTicks == 2
\* calls made by the specification of overlapping calls
MaxOverlappingCalls == 2
\* calls made by the specification of two tenants
MaxTenantCalls == 3
\* failed attempts per call where the calls race to store their tokens
MaxRaceFailures == 1
\* getPortalToken calls of the specification with fair scheduling
MaxFairCalls == 2
\* POST /webhook requests and direct invocations of updateCallDisposition
MaxRequests == 2
\* runs of `ssl-manager.js rotate`, and clock steps between them
MaxRotations == 2
MaxTimeSteps == 3
\* GET /webhook requests
MaxGets == 3
\* requests to the form server
MaxSubmissions == 3

Callers == {1, 2}
\* the callers that run in the sequential specification
Sequential == {1}
Tenants == {"acme", "mc_int"}
TickSteps == {10000, 120000}

-----------------------------------------------------------------------------
(* JSON values: an optional field is <<>> when absent and <<v>> when present *)

Absent == <<>>
Some(v) == <<v>>

TruthyStr(o) == o # Absent /\ o[1] # ""
TruthyNum(o) == o # Absent /\ o[1] # 0

\* faulty variant: the operands are the other way round, b || a
Or_Swapped(a, b) == IF TruthyStr(b) THEN b ELSE a

\* JavaScript a || b
Or(a, b) == IF TruthyStr(a) THEN a ELSE b

\* a 2xx login response body
Body(accessToken, access_token, refreshToken, refresh_token, expiresIn) ==
    [accessToken |-> accessToken, access_token |-> access_token,
     refreshToken |-> refreshToken, refresh_token |-> refresh_token,
     expiresIn |-> expiresIn]

\* bodies a 2xx login response can carry
Responses ==
    { Body(Some("abc"), Absent, Absent, Absent, Some(3600)),
      Body(Absent, Some("xyz"), Absent, Some("r1"), Absent),
      Body(Some(""), Some("xyz"), Absent, Some("r1"), Some(0)),
      Body(Some("abc"), Some("xyz"), Some("r1"), Absent, Some(130)),
      Body(Some("xyz"), Absent, Absent, Absent, Some(120)),
      Body(Absent, Absent, Absent, Absent, Some(3600)),
      Body(Some(""), Absent, Some("r1"), Absent, Absent) }

\* what axios.post rejects with
Rejections == {"Network Error", "timeout of 5000ms exceeded",
               "Request failed with status code 401"}

\* no catch block is active
NoError == ""

-----------------------------------------------------------------------------
(* tokenService.js *)

\* faulty variant: one retry fewer per candidate
MAX_RETRIES_Fewer == 3 - 1

\* faulty variant: one attempt more per candidate
MAX_RETRIES_More == 3 + 1

MAX_RETRIES == 3

BASE_DELAY == 1000

ms(s) == CASE s = "2m" -> 120000
           [] s = "1h" -> 3600000

candidates == << "/api/v2/config/login/oauth", "/api/v2/login", "/api/login" >>

\* faulty variant: the key does not name the tenant
cacheKey_Shared(t) == <<"portal", "">>

cacheKey(t) == <<"portal", t>>

NoTokenError == "No access token in response"

\* the message's dash is an en dash in the source
ExhaustedError == "All portal login attempts failed - check credentials/endpoints"

\* Map.prototype.get: the value stored under k, or Absent
MapGet(m, k) ==
    IF \E e \in m : e.key = k
      THEN Some((CHOOSE e \in m : e.key = k).value)
      ELSE Absent

\* faulty variant: the new entry is added beside the old one
MapSet_Add(m, k, v) == m \cup {[key |-> k, value |-> v]}

\* faulty variant: the map is emptied before the entry is stored
MapSet_Clear(m, k, v) == {[key |-> k, value |-> v]}

\* Map.prototype.set: the entry under k is replaced
MapSet(m, k, v) == {e \in m : e.key # k} \cup {[key |-> k, value |-> v]}

\* faulty variant: the comparison is the wrong way round
CacheFresh_Flipped(cached, t) ==
    cached # Absent /\ t > cached[1].expiresAt - ms("2m")

\* faulty variant: an entry exactly at the safety margin still counts as fresh
CacheFresh_Inclusive(cached, t) ==
    cached # Absent /\ t <= cached[1].expiresAt - ms("2m")

\* cached && now < cached.expiresAt - ms('2m')
CacheFresh(cached, t) == cached # Absent /\ t < cached[1].expiresAt - ms("2m")

\* data.expiresIn ? Date.now() + data.expiresIn * 1000 : Date.now() + ms('1h')
ExpiresAt(data, t) ==
    IF TruthyNum(data.expiresIn) THEN t + data.expiresIn[1] * 1000 ELSE t + ms("1h")

Pending == [kind |-> "pending", value |-> ""]
Return(v) == [kind |-> "return", value |-> v]
Throw(e) == [kind |-> "throw", value |-> e]

-----------------------------------------------------------------------------
(* voicemeetme.js and webhook.js: values *)

\* the arguments of updateCallDisposition
Args(t, callId, value) == [tenant |-> t, callId |-> callId, value |-> value]

NoArgs == Args(Absent, Absent, <<>>)

RequiredError == "tenant and callId are required"

\* what axios.put rejects with
PutRejections == {"timeout of 5000ms exceeded",
                  "Request failed with status code 401"}

\* the body of a POST /webhook request, after express.json()
PostBody(recordId, call_type, d_1, d_2, d_2_custom, t, callId) ==
    [recordId |-> recordId, call_type |-> call_type,
     disposition_1 |-> d_1, disposition_2 |-> d_2,
     disposition_2_custom |-> d_2_custom,
     tenant |-> t, callId |-> callId]

NoBody == PostBody(Absent, Absent, Absent, Absent, Absent, Absent, Absent)

\* a body with every required field filled in
FullBody(d2c, t, callId) ==
    PostBody(Some(7), Some("Inbound"), Some("Sales"), Some("Quote"), d2c, t,
             callId)

\* the bodies a client posts: complete ones, with and without the optional
\* fields, and ones with a required field left out, zero or empty
PostBodies ==
    { FullBody(d2c, t, callId) :
        d2c \in {Absent, Some("Other")},
        t \in {Absent, Some("acme")},
        callId \in {Absent, Some("c42")} }
    \cup
    { [FullBody(Absent, Some("acme"), Some("c42")) EXCEPT ![f] = v] :
        f \in {"call_type", "disposition_1", "disposition_2"},
        v \in {Absent, Some("")} }
    \cup
    { [FullBody(Absent, Some("acme"), Some("c42")) EXCEPT !.recordId = v] :
        v \in {Absent, Some(0)} }
    \cup
    { NoBody }

\* the arguments another module passes to updateCallDisposition
DirectArgs ==
    { Args(t, callId, <<"Inbound", " - ", "Sales", " - ", "Quote">>) :
        t \in {Absent, Some(""), Some("acme")},
        callId \in {Absent, Some("c42")} }

\* the columns of a forms_new row that the handler sets (schema.sql); a NULL
\* is Absent
Row(call_type, disposition_1, disposition_2, disposition_2_custom) ==
    [call_type |-> call_type, disposition_1 |-> disposition_1,
     disposition_2 |-> disposition_2,
     disposition_2_custom |-> disposition_2_custom]

\* the ids of the rows GET /webhook has inserted
RecordIds == {7}

NoResponse == [status |-> 0, body |-> ""]
Json(status, body) == [status |-> status, body |-> body]

\* what pool.execute rejects with
DbRejections == {"ER_LOCK_WAIT_TIMEOUT"}

HookInit ==
    /\ upc = "idle"
    /\ uargs = NoArgs
    /\ ucaller = "direct"
    /\ uerr = NoError
    /\ acquired = <<>>
    /\ puts = <<>>
    /\ hpc = "idle"
    /\ hdata = NoBody
    /\ rows = [id \in RecordIds |-> Row(Some(""), Some(""), Some(""), Absent)]
    /\ response = NoResponse
    /\ logged = <<>>
    /\ updated = FALSE
    /\ notified = FALSE
    /\ posts = 0

-----------------------------------------------------------------------------
(* ssl-manager.js: values *)

DEFAULT_DAYS_VALID == 365
WARNING_DAYS == 30

CERT_FILES == << "cert.pem", "chain.pem", "fullchain.pem", "privkey.pem" >>

FileNames == {CERT_FILES[i] : i \in 1..Len(CERT_FILES)}

\* const msPerDay = 1000 * 60 * 60 * 24, in the unit of `today`: the dates of
\* the ssl-manager process are counted in seconds, a year of milliseconds is
\* beyond the integers of the model checker
msPerDay == 60 * 60 * 24

\* the content openssl writes at time t for a validity of `days`: validTo is
\* the certificate's notAfter, parses tells whether X509Certificate reads it
Pem(t, days) == [validTo |-> t + days * msPerDay, parses |-> TRUE]

\* CertStatus
CertStatus ==
    [VALID |-> "valid", EXPIRING_SOON |-> "expiring_soon",
     EXPIRED |-> "expired", INVALID |-> "invalid", MISSING |-> "missing"]

Status(status, daysRemaining) ==
    [status |-> status, daysRemaining |-> daysRemaining]

NoStatus == Status("", Absent)

NoResult == [kind |-> "pending", rotated |-> FALSE, status |-> "",
             daysRemaining |-> Absent]

\* process.argv[3] of `ssl-manager.js rotate [threshold]`, as its characters
Argvs ==
    { Absent, Some(<<"0">>), Some(<<"1", "0">>), Some(<<"6", "0">>),
      Some(<<"a", "b", "c">>), Some(<<"4", "5", "d">>), Some(<<"-", "5">>) }

\* how far the clock of the ssl-manager process moves between runs
TimeSteps == {335 * msPerDay, 20 * msPerDay + msPerDay \div 2}

\* the certificate files as `generate` left them at time 0
SslInit ==
    /\ today = 0
    /\ files = [f \in FileNames |-> Some(Pem(0, DEFAULT_DAYS_VALID))]
    /\ backups = <<>>
    /\ spc = "idle"
    /\ sthreshold = WARNING_DAYS
    /\ sstatus = NoStatus
    /\ sresult = NoResult
    /\ bidx = 1
    /\ gstep = 1
    /\ sops = <<>>
    /\ filesBefore = files
    /\ timeSteps = 0
    /\ rotations = 0
    /\ srun = ""

-----------------------------------------------------------------------------
(* Values of form.js and of GET /webhook *)

\* the GET /webhook requests that can be in flight together
Handlers == {1, 2}

\* connectionLimit: 10
connectionLimit == 10

\* req.query of GET /webhook: the caller's number, when the dialler gave it
GetQueries == { [cidnum |-> Some("0501234567")], [cidnum |-> Some("0507654321")],
                [cidnum |-> Absent] }

NoQuery == [cidnum |-> Absent]

\* a row of forms_new: the columns the requests of the model differ in
FormRow(company, contact_number, call_type, disposition_1, disposition_2) ==
    [company |-> company, contact_number |-> contact_number,
     call_type |-> call_type, disposition_1 |-> disposition_1,
     disposition_2 |-> disposition_2]

\* what GET /webhook answers: a redirect to `${clientURL}/?id=${recordId}`
\* or an error status
NoGetResponse == [status |-> 0, id |-> 0]
Redirect(recordId) == [status |-> 302, id |-> recordId]
GetError == [status |-> 500, id |-> 0]

\* req.body before a request arrived
NoFormBody == [k \in {} |-> ""]

\* a row of disposition_config
Config(call_type, disposition_1, disposition_2, email_address, is_custom_input) ==
    [call_type |-> call_type, disposition_1 |-> disposition_1,
     disposition_2 |-> disposition_2, email_address |-> email_address,
     is_custom_input |-> is_custom_input]

\* the rows of disposition_config: call_type, disposition_1, disposition_2,
\* email_address, is_custom_input
disposition_config ==
    {
      Config("Complaints", "CallBack Not Rcvd", "CP_Support",
             "cp.support@spcfz.ae", FALSE),
      Config("Complaints", "CallBack Not Rcvd", "SPC Plus",
             "services@spcfz.ae", FALSE),
      Config("Complaints", "CallBack Not Rcvd", "Guide",
             "guide@spcfz.ae", FALSE),
      Config("Complaints", "CallBack Not Rcvd", "MComplaince",
             "compliance@spcfz.ae", FALSE),
      Config("Complaints", "CallBack Not Rcvd", "Application",
             "application@spcfz.ae", FALSE),
      Config("Complaints", "CallBack Not Rcvd", "Existing B2C Support",
             "cx@spcfz.ae", FALSE),
      Config("Complaints", "CallBack Not Rcvd", "New Business set up",
             "cx@spcfz.ae", FALSE),
      Config("Complaints", "CallBack Not Rcvd", "New Channel Partner",
             "cp.support@spcfz.ae", FALSE),
      Config("Complaints", "CallBack Not Rcvd", "Renewals",
             "renewals@spcfz.ae", FALSE),
      Config("Complaints", "CallBack Not Rcvd", "Visa support- B2B",
             "cp.support@spcfz.ae", FALSE),
      Config("Complaints", "CallBack Not Rcvd", "Visa support- B2C",
             "cx@spcfz.ae", FALSE),
      Config("Complaints", "CallBack Not Rcvd", "Channel Partner Dispute",
             "cp.support@spcfz.ae", FALSE),
      Config("Complaints", "CallBack Not Rcvd", "Employee / Employer_B2B",
             "cx@spcfz.ae", FALSE),
      Config("Complaints", "CallBack Not Rcvd", "Employee / Employer _B2C",
             "cx@spcfz.ae", FALSE),
      Config("Complaints", "Reason for Rejection", "Company setup B2C",
             "cx@spcfz.ae", FALSE),
      Config("Complaints", "Reason for Rejection", "Establishment card Rejection -B2B",
             "cp.support@spcfz.ae", FALSE),
      Config("Complaints", "Reason for Rejection", "Establishment card Rejection -B2C",
             "cx@spcfz.ae", FALSE),
      Config("Complaints", "Reason for Rejection", "VISAs rejection_B2C",
             "cx@spcfz.ae", FALSE),
      Config("Complaints", "Reason for Rejection", "VISAs rejection_B2B",
             "cp.support@spcfz.ae", FALSE),
      Config("Complaints", "Others", "Others",
             "", TRUE),
      Config("Query", "Accounts", "Paid Invoice - B2C",
             "cx@spcfz.ae", FALSE),
      Config("Query", "Accounts", "Paid Invoice - B2B",
             "cp.support@spcfz.ae", FALSE),
      Config("Query", "Accounts", "Overstay fine - B2B",
             "cp.support@spcfz.ae", FALSE),
      Config("Query", "Accounts", "Overstay fine - B2C",
             "cx@spcfz.ae", FALSE),
      Config("Query", "Accounts", "Payment link - B2C",
             "cx@spcfz.ae", FALSE),
      Config("Query", "Accounts", "Payment link - B2B",
             "cp.support@spcfz.ae", FALSE),
      Config("Query", "Application", "Expedite application - B2C",
             "cx@spcfz.ae", FALSE),
      Config("Query", "Application", "Expedite application - B2B",
             "cp.support@spcfz.ae", FALSE),
      Config("Query", "Application", "Ref/Cred Note fr App_B2C",
             "cx@spcfz.ae", FALSE),
      Config("Query", "Application", "Ref/Cred Note fr App_B2B",
             "cp.support@spcfz.ae", FALSE),
      Config("Query", "SPC Plus", "Custom Code",
             "services@spcfz.ae", FALSE),
      Config("Query", "SPC Plus", "De- registeration of corporate tax",
             "services@spcfz.ae", FALSE),
      Config("Query", "SPC Plus", "Dependant Visa",
             "services@spcfz.ae", FALSE),
      Config("Query", "SPC Plus", "Corporate Tax",
             "services@spcfz.ae", FALSE),
      Config("Query", "SPC Plus", "Po Box",
             "services@spcfz.ae", FALSE),
      Config("Query", "SPC Plus", "Tourist Visa/ Visit visa - New / Cancel",
             "services@spcfz.ae", FALSE),
      Config("Query", "SPC Plus", "Bank Account",
             "services@spcfz.ae", FALSE),
      Config("Query", "SPC Plus", "EID Delivery",
             "services@spcfz.ae", FALSE),
      Config("Query", "Office related", "Meeting Room booking - B2B",
             "cp.support@spcfz.ae", FALSE),
      Config("Query", "Office related", "Meeting Room booking - B2C",
             "cx@spcfz.ae", FALSE),
      Config("Query", "Office related", "Collection of EID_B2B",
             "cp.support@spcfz.ae", FALSE),
      Config("Query", "Office related", "Collection of EID_B2C",
             "cx@spcfz.ae", FALSE),
      Config("Query", "Office related", "Forgot belongings_B2B",
             "cp.support@spcfz.ae", FALSE),
      Config("Query", "Office related", "Forgot belongings_B2C",
             "cx@spcfz.ae", FALSE),
      Config("Query", "Office related", "Office space timing_B2B",
             "cp.support@spcfz.ae", FALSE),
      Config("Query", "Office related", "Office space timing_B2C",
             "cx@spcfz.ae", FALSE),
      Config("Query", "VISA", "Dependent VISA",
             "services@spcfz.ae", FALSE),
      Config("Query", "VISA", "Emp & investor VISA_B2B",
             "cp.support@spcfz.ae", FALSE),
      Config("Query", "VISA", "Emp & investor VISA_B2C",
             "cx@spcfz.ae", FALSE),
      Config("Query", "VISA", "VISA Alloctn - 25+_B2B",
             "cp.support@spcfz.ae", FALSE),
      Config("Query", "VISA", "VISA Alloctn - 25+_B2C",
             "cx@spcfz.ae", FALSE),
      Config("Query", "VISA", "Employment Contract_B2B",
             "cp.support@spcfz.ae", FALSE),
      Config("Query", "VISA", "Employment Contract_B2C",
             "cx@spcfz.ae", FALSE),
      Config("Query", "Others", "Others",
             "", TRUE),
      Config("Request", "Company cancellation", "Suspended company_B2B",
             "cp.support@spcfz.ae", FALSE),
      Config("Request", "Company cancellation", "Suspended company_B2C",
             "renewals@spcfz.ae", FALSE),
      Config("Request", "Company cancellation", "Expired company_ B2B - More than 5 days",
             "renewals@spcfz.ae", FALSE),
      Config("Request", "Company cancellation", "Expired company_ B2B",
             "cp.support@spcfz.ae", FALSE),
      Config("Request", "Company cancellation", "Expired company_ B2C",
             "renewals@spcfz.ae", FALSE),
      Config("Request", "Company cancellation", "Valid Company_B2B",
             "cp.support@spcfz.ae", FALSE),
      Config("Request", "Company cancellation", "Valid Company_B2C",
             "renewals@spcfz.ae", FALSE),
      Config("Request", "Migration", "B2B to B2B",
             "cp.support@spcfz.ae", FALSE),
      Config("Request", "Migration", "B2B to B2C",
             "cp.support@spcfz.ae", FALSE),
      Config("Request", "Migration", "B2C to B2B",
             "cx@spcfz.ae", FALSE),
      Config("Request", "Name Check", "Name Check_B2B",
             "cp.support@spcfz.ae", FALSE),
      Config("Request", "Name Check", "Name Check_B2C",
             "cx@spcfz.ae", FALSE),
      Config("Request", "Payment", "Payment Invoices_B2B",
             "cp.support@spcfz.ae", FALSE),
      Config("Request", "Payment", "Payment Invoices_B2C",
             "cx@spcfz.ae", FALSE),
      Config("Request", "Payment", "Payment Link _B2B",
             "cp.support@spcfz.ae", FALSE),
      Config("Request", "Payment", "Payment Link_B2C",
             "cx@spcfz.ae", FALSE),
      Config("Request", "PO BOX number", "PO BOX number_B2B",
             "cp.support@spcfz.ae", FALSE),
      Config("Request", "PO BOX number", "PO BOX number_B2C",
             "cx@spcfz.ae", FALSE),
      Config("Request", "Guide", "Application submission",
             "guide@spcfz.ae", FALSE),
      Config("Request", "Others", "Others",
             "", TRUE),
      Config("Appreciation", "General", "General Appreciation",
             "info@spcfz.ae", FALSE) }

\* the fields handleFormSubmission requires
RequiredFields == {"company", "name", "contact_number", "email", "call_type",
                   "disposition_1", "disposition_2"}

\* a body with every required field, for a combination of dispositions
Complete(call_type, disposition_1, disposition_2) ==
    [company |-> "ACME FZ", name |-> "Ann", contact_number |-> "0501234567",
     email |-> "ann@acme.test", call_type |-> call_type,
     disposition_1 |-> disposition_1, disposition_2 |-> disposition_2]

\* the body without the field k, and with the field k set to v
Without(body, k) == [x \in DOMAIN body \ {k} |-> body[x]]
With(body, k, v) == [x \in DOMAIN body \cup {k} |-> IF x = k THEN v ELSE body[x]]

\* req.body of POST /forms: complete bodies for combinations with an
\* address, with the empty address of a custom input, with the fallback
\* address, and for one that disposition_config does not hold; bodies in
\* which one required field is missing or empty
FormBodies ==
    LET full == Complete("Complaints", "CallBack Not Rcvd", "CP_Support")
    IN  { full,
          Complete("Complaints", "Others", "Others"),
          Complete("Request", "Guide", "Application submission"),
          Complete("Appreciation", "General", "General Appreciation"),
          Complete("Query", "VISA", "CP_Support"),
          Without(full, "company"), With(full, "name", ""),
          Without(full, "contact_number"), With(full, "email", ""),
          Without(full, "call_type"), With(full, "disposition_1", ""),
          Without(full, "disposition_2") }

\* req.body of PUT /forms/:id
UpdateBodies ==
    { NoFormBody,
      [after_disposition |-> "Resolved"],
      [after_disposition |-> "Resolved", after_follow_up_notes |-> "none"],
      [afterwards |-> "call back"],
      [after_disposition |-> "Resolved", query |-> "call back"],
      [disposition_2 |-> "Guide"] }

\* req.params.id of PUT /forms/:id
UpdateIds == {1, 2}

\* the characters of the keys of the bodies
Spell(k) ==
    CASE k = "after_disposition" ->
           <<"a", "f", "t", "e", "r", "_", "d", "i", "s", "p", "o", "s", "i",
             "t", "i", "o", "n">>
      [] k = "after_follow_up_notes" ->
           <<"a", "f", "t", "e", "r", "_", "f", "o", "l", "l", "o", "w", "_",
             "u", "p", "_", "n", "o", "t", "e", "s">>
      [] k = "afterwards" ->
           <<"a", "f", "t", "e", "r", "w", "a", "r", "d", "s">>
      [] k = "after_" -> <<"a", "f", "t", "e", "r", "_">>
      [] k = "query" -> <<"q", "u", "e", "r", "y">>
      [] k = "disposition_2" ->
           <<"d", "i", "s", "p", "o", "s", "i", "t", "i", "o", "n", "_", "2">>

\* a call of transporter.sendMail: mailOptions.to, the row the mail is about,
\* and how the call ended
Mail(to, form, outcome) == [to |-> to, form |-> form, outcome |-> outcome]

\* what the request found when it arrived
Before(m, f) == [mails |-> Len(m), rows |-> Len(f)]

SiteInit ==
    /\ forms = <<>>
    /\ gpc = [g \in Handlers |-> "idle"]
    /\ gquery = [g \in Handlers |-> NoQuery]
    /\ gconn = [g \in Handlers |-> 0]
    /\ ginserted = [g \in Handlers |-> 0]
    /\ gresponse = [g \in Handlers |-> NoGetResponse]
    /\ lastInsertId = <<>>
    /\ gets = 0
    /\ fpc = "idle"
    /\ fop = "create"
    /\ fid = 0
    /\ fdata = NoFormBody
    /\ ftarget = ""
    /\ fresponse = 0
    /\ fbefore = Before(<<>>, <<>>)
    /\ mails = <<>>
    /\ submissions = 0

-----------------------------------------------------------------------------

Init ==
    /\ now = 0
    /\ cache = {}
    /\ pc = [c \in Callers |-> "idle"]
    /\ tenant = [c \in Callers |-> "acme"]
    /\ cand = [c \in Callers |-> 1]
    /\ attempt = [c \in Callers |-> 0]
    /\ delay = [c \in Callers |-> BASE_DELAY]
    /\ wakeAt = [c \in Callers |-> 0]
    /\ caught = [c \in Callers |-> NoError]
    /\ result = [c \in Callers |-> Pending]
    /\ requests = [c \in Callers |-> <<>>]
    /\ waits = [c \in Callers |-> <<>>]
    /\ failures = [c \in Callers |-> 0]
    /\ started = 0
    /\ ticks = 0
    /\ HookInit
    /\ SslInit
    /\ SiteInit

\* await axios.post(url, body, ...) at candidate k, attempt a, delay d
Post(c, k, a, d) ==
    /\ pc' = [pc EXCEPT ![c] = "awaiting"]
    /\ cand' = [cand EXCEPT ![c] = k]
    /\ attempt' = [attempt EXCEPT ![c] = a]
    /\ delay' = [delay EXCEPT ![c] = d]
    /\ requests' = [requests EXCEPT ![c] = Append(@, candidates[k])]
    /\ UNCHANGED <<result, wakeAt>>

\* faulty variant: the throw after the loops is missing, the function returns undefined
ThrowExhausted_Missing(c) ==
    /\ pc' = [pc EXCEPT ![c] = "returned"]
    /\ result' = [result EXCEPT ![c] = Return("undefined")]

\* throw new Error('All portal login attempts failed ...') after the loops
ThrowExhausted(c) ==
    /\ pc' = [pc EXCEPT ![c] = "failed"]
    /\ result' = [result EXCEPT ![c] = Throw(ExhaustedError)]

\* faulty variant: the delay is not doubled
NextDelay_Constant(d) == d

\* the inner loop's update of delay: delay *= 2
NextDelay(d) == d * 2

\* the loops' control after an iteration of the inner loop ended without a
\* return: attempt++, delay *= 2, the inner condition, then the outer loop,
\* then the throw after both loops
Continue(c) ==
    LET a == attempt[c] + 1
        d == NextDelay(delay[c])
    IN  IF a < MAX_RETRIES
          THEN Post(c, cand[c], a, d)
          ELSE IF cand[c] < Len(candidates)
            THEN Post(c, cand[c] + 1, 0, BASE_DELAY)
            ELSE /\ ThrowExhausted(c)
                 /\ attempt' = [attempt EXCEPT ![c] = a]
                 /\ delay' = [delay EXCEPT ![c] = d]
                 /\ UNCHANGED <<cand, requests, wakeAt>>

\* await new Promise((r) => setTimeout(r, delay)), inside catch (err)
Sleep(c, err) ==
    /\ pc' = [pc EXCEPT ![c] = "sleeping"]
    /\ caught' = [caught EXCEPT ![c] = err]
    /\ wakeAt' = [wakeAt EXCEPT ![c] = now + delay[c]]
    /\ waits' = [waits EXCEPT ![c] = Append(@, delay[c])]
    /\ UNCHANGED <<cand, attempt, delay, result, requests>>

\* faulty variant: a failed attempt drops the tenant's cache entry
Catch_Evict(c, err) ==
    /\ failures' = [failures EXCEPT ![c] = @ + 1]
    /\ cache' = {e \in cache : e.key # cacheKey(tenant[c])}
    /\ UNCHANGED tenant
    /\ IF attempt[c] = MAX_RETRIES - 1
         THEN Continue(c) /\ UNCHANGED <<waits, caught>>
         ELSE Sleep(c, err)

\* faulty variant: the missing-token error is thrown outside the try block
Catch_NoTokenEscapes(c, err) ==
    /\ failures' = [failures EXCEPT ![c] = @ + 1]
    /\ UNCHANGED <<cache, tenant>>
    /\ IF err = NoTokenError
         THEN /\ pc' = [pc EXCEPT ![c] = "failed"]
              /\ result' = [result EXCEPT ![c] = Throw(err)]
              /\ UNCHANGED <<cand, attempt, delay, wakeAt, requests, waits,
                             caught>>
         ELSE IF attempt[c] = MAX_RETRIES - 1
           THEN Continue(c) /\ UNCHANGED <<waits, caught>>
           ELSE Sleep(c, err)

\* faulty variant: the last attempt's error is rethrown instead of logged
Catch_RethrowLast(c, err) ==
    /\ failures' = [failures EXCEPT ![c] = @ + 1]
    /\ UNCHANGED <<cache, tenant>>
    /\ IF attempt[c] = MAX_RETRIES - 1
         THEN /\ pc' = [pc EXCEPT ![c] = "failed"]
              /\ result' = [result EXCEPT ![c] = Throw(err)]
              /\ UNCHANGED <<cand, attempt, delay, wakeAt, requests, waits,
                             caught>>
         ELSE Sleep(c, err)

\* faulty variant: the backoff wait is skipped, the next attempt follows at once
Catch_NoBackoff(c, err) ==
    /\ failures' = [failures EXCEPT ![c] = @ + 1]
    /\ UNCHANGED <<cache, tenant>>
    /\ Continue(c)
    /\ UNCHANGED <<waits, caught>>

\* catch (err): on the last attempt log err and go on, otherwise sleep `delay`
Catch(c, err) ==
    /\ failures' = [failures EXCEPT ![c] = @ + 1]
    /\ UNCHANGED <<cache, tenant>>
    /\ IF attempt[c] = MAX_RETRIES - 1
         THEN Continue(c) /\ UNCHANGED <<waits, caught>>
         ELSE Sleep(c, err)

\* faulty variant: the return after cache.set is missing, the loops go on
Succeed_NoReturn(c, access, refresh, expiresAt) ==
    /\ cache' = MapSet(cache, cacheKey(tenant[c]),
                       [access |-> access, refresh |-> refresh,
                        expiresAt |-> expiresAt])
    /\ Continue(c)
    /\ UNCHANGED <<tenant, caught, waits, failures>>

\* faulty variant: the entry is stored only when it expires later than the
\* entry the cache already holds
Succeed_KeepNewer(c, access, refresh, expiresAt) ==
    /\ LET cached == MapGet(cache, cacheKey(tenant[c]))
       IN  cache' = IF cached # Absent /\ cached[1].expiresAt >= expiresAt
                      THEN cache
                      ELSE MapSet(cache, cacheKey(tenant[c]),
                                  [access |-> access, refresh |-> refresh,
                                   expiresAt |-> expiresAt])
    /\ pc' = [pc EXCEPT ![c] = "returned"]
    /\ result' = [result EXCEPT ![c] = Return(access)]
    /\ UNCHANGED <<tenant, cand, attempt, delay, wakeAt, caught, requests,
                   waits, failures>>

\* cache.set(cacheKey, { access, refresh, expiresAt }); return access
Succeed(c, access, refresh, expiresAt) ==
    /\ cache' = MapSet(cache, cacheKey(tenant[c]),
                       [access |-> access, refresh |-> refresh,
                        expiresAt |-> expiresAt])
    /\ pc' = [pc EXCEPT ![c] = "returned"]
    /\ result' = [result EXCEPT ![c] = Return(access)]
    /\ UNCHANGED <<tenant, cand, attempt, delay, wakeAt, caught, requests,
                   waits, failures>>

\* faulty variant: a call that finds a login for its tenant in flight joins it
\* instead of posting its own
getPortalToken_SingleFlight(c, t) ==
    /\ pc[c] = "idle"
    /\ started' = started + 1
    /\ tenant' = [tenant EXCEPT ![c] = t]
    /\ LET cached == MapGet(cache, cacheKey(t))
       IN  IF CacheFresh(cached, now)
             THEN /\ pc' = [pc EXCEPT ![c] = "returned"]
                  /\ result' = [result EXCEPT ![c] = Return(cached[1].access)]
                  /\ UNCHANGED <<cand, attempt, delay, requests, wakeAt>>
             ELSE IF \E o \in Callers \ {c} :
                        pc[o] \in {"awaiting", "sleeping"} /\ tenant[o] = t
               THEN /\ pc' = [pc EXCEPT ![c] = "joined"]
                    /\ UNCHANGED <<result, cand, attempt, delay, requests,
                                   wakeAt>>
               ELSE Post(c, 1, 0, BASE_DELAY)
    /\ UNCHANGED <<now, cache, caught, waits, failures, ticks>>

\* getPortalToken(tenant) up to its first await
getPortalToken(c, t) ==
    /\ pc[c] = "idle"
    /\ started' = started + 1
    /\ tenant' = [tenant EXCEPT ![c] = t]
    /\ LET cached == MapGet(cache, cacheKey(t))
       IN  IF CacheFresh(cached, now)
             THEN /\ pc' = [pc EXCEPT ![c] = "returned"]
                  /\ result' = [result EXCEPT ![c] = Return(cached[1].access)]
                  /\ UNCHANGED <<cand, attempt, delay, requests, wakeAt>>
             ELSE Post(c, 1, 0, BASE_DELAY)
    /\ UNCHANGED <<now, cache, caught, waits, failures, ticks>>

\* the awaited post resolved with `data`
PostResolves(c, data) ==
    /\ pc[c] = "awaiting"
    /\ LET access == Or(data.accessToken, data.access_token)
           refresh == Or(data.refreshToken, data.refresh_token)
       IN  IF ~TruthyStr(access)
             THEN Catch(c, NoTokenError)
             ELSE Succeed(c, access[1], refresh, ExpiresAt(data, now))
    /\ UNCHANGED <<now, started, ticks>>

\* the awaited post rejected with `err`
PostRejects(c, err) ==
    /\ pc[c] = "awaiting"
    /\ Catch(c, err)
    /\ UNCHANGED <<now, started, ticks>>

\* the backoff timer of call c fires: no timer with an earlier deadline is
\* pending, and the clock is at least at the deadline
TimerFires(c) ==
    /\ pc[c] = "sleeping"
    /\ \A o \in Callers : pc[o] = "sleeping" => wakeAt[c] <= wakeAt[o]
    /\ now' = IF now < wakeAt[c] THEN wakeAt[c] ELSE now
    /\ caught' = [caught EXCEPT ![c] = NoError]
    /\ Continue(c)
    /\ UNCHANGED <<cache, tenant, waits, failures, started, ticks>>

\* the caller awaiting the promise takes its result; the call's frame is gone
CallerResumes(c) ==
    /\ pc[c] \in {"returned", "failed"}
    /\ pc' = [pc EXCEPT ![c] = "idle"]
    /\ tenant' = [tenant EXCEPT ![c] = "acme"]
    /\ cand' = [cand EXCEPT ![c] = 1]
    /\ attempt' = [attempt EXCEPT ![c] = 0]
    /\ delay' = [delay EXCEPT ![c] = BASE_DELAY]
    /\ wakeAt' = [wakeAt EXCEPT ![c] = 0]
    /\ caught' = [caught EXCEPT ![c] = NoError]
    /\ result' = [result EXCEPT ![c] = Pending]
    /\ requests' = [requests EXCEPT ![c] = <<>>]
    /\ waits' = [waits EXCEPT ![c] = <<>>]
    /\ failures' = [failures EXCEPT ![c] = 0]
    /\ UNCHANGED <<now, cache, started, ticks>>

\* time passes
Tick(d) ==
    /\ ticks' = ticks + 1
    /\ now' = now + d
    /\ UNCHANGED <<cache, started>>
    /\ UNCHANGED callVars

\* the steps of at most n calls made by the callers in C for the tenants in T
CallStep(C, T, n) ==
    \/ \E c \in C, t \in T :
         started < n /\ getPortalToken(c, t) /\ UNCHANGED <<hookVars, sslVars, siteVars>>
    \/ \E c \in C, data \in Responses :
         PostResolves(c, data) /\ UNCHANGED <<hookVars, sslVars, siteVars>>
    \/ \E c \in C, err \in Rejections :
         PostRejects(c, err) /\ UNCHANGED <<hookVars, sslVars, siteVars>>
    \/ \E c \in C : TimerFires(c) /\ UNCHANGED <<hookVars, sslVars, siteVars>>
    \/ \E c \in C : CallerResumes(c) /\ UNCHANGED <<hookVars, sslVars, siteVars>>

\* one caller and one tenant: each call ends before the next starts, and time
\* passes between and during the calls
Next ==
    \/ CallStep(Sequential, {"acme"}, MaxCalls)
    \/ \E d \in TickSteps : ticks < MaxTicks /\ Tick(d) /\ UNCHANGED <<hookVars, sslVars, siteVars>>

Spec == Init /\ [][Next]_vars

\* overlapping calls for one tenant; the clock moves with the backoff timers
NextConcurrent == CallStep(Callers, {"acme"}, MaxOverlappingCalls)

SpecConcurrent == Init /\ [][NextConcurrent]_vars

\* one caller, calls for two tenants; the clock moves with the backoff timers
NextTenants == CallStep(Sequential, Tenants, MaxTenantCalls)

SpecTenants == Init /\ [][NextTenants]_vars

\* overlapping calls for one tenant to a portal that lets a call fail only
\* MaxRaceFailures attempts: the calls end by storing a token
Allowed == \A c \in Callers : failures'[c] <= MaxRaceFailures

NextRace ==
    \/ \E c \in Callers :
         /\ started < MaxOverlappingCalls
         /\ getPortalToken(c, "acme") /\ UNCHANGED <<hookVars, sslVars, siteVars>>
    \/ \E c \in Callers, data \in Responses :
         PostResolves(c, data) /\ Allowed /\ UNCHANGED <<hookVars, sslVars, siteVars>>
    \/ \E c \in Callers, err \in Rejections :
         PostRejects(c, err) /\ Allowed /\ UNCHANGED <<hookVars, sslVars, siteVars>>
    \/ \E c \in Callers : TimerFires(c) /\ UNCHANGED <<hookVars, sslVars, siteVars>>
    \/ \E c \in Callers : CallerResumes(c) /\ UNCHANGED <<hookVars, sslVars, siteVars>>

SpecRace == Init /\ [][NextRace]_vars

\* the awaited request of call c completes: axios.post resolves, or rejects
\* (at the latest when its 5000 ms timeout expires)
RequestCompletes(c) ==
    /\ \/ \E data \in Responses : PostResolves(c, data)
       \/ \E err \in Rejections : PostRejects(c, err)
    /\ UNCHANGED <<hookVars, sslVars, siteVars>>

\* one caller and one tenant, scheduled fairly: a request in flight
\* completes, and a pending backoff timer fires
NextFair == CallStep(Sequential, {"acme"}, MaxFairCalls)

SpecFair ==
    /\ Init
    /\ [][NextFair]_vars
    /\ \A c \in Sequential :
         /\ WF_vars(RequestCompletes(c))
         /\ WF_vars(TimerFires(c) /\ UNCHANGED <<hookVars, sslVars, siteVars>>)

-----------------------------------------------------------------------------
(* voicemeetme.js *)

\* process.env.ACCOUNT_ID_HEADER: not set
ACCOUNT_ID_HEADER == Absent

\* `${o}` in a template literal
Text(o) == IF o = Absent THEN "undefined" ELSE o[1]

\* JavaScript a ?? b
Coalesce(a, b) == IF a # Absent THEN a ELSE b

\* the request axios.put sends: url, headers and body
Put(callId, token, value, account) ==
    [url |-> <<"/api/v2/config/campaigns/call/", callId, "/disposition">>,
     authorization |-> <<"Bearer ", token>>,
     account |-> account,
     body |-> [value |-> value]]

\* faulty variant: the await before getPortalToken is missing, the PUT goes
\* out at once with the pending promise as its credential
updateCallDisposition_NoAwait(a, who) ==
    /\ uargs' = a
    /\ ucaller' = who
    /\ acquired' = <<>>
    /\ IF ~TruthyStr(a.tenant) \/ ~TruthyStr(a.callId)
         THEN /\ upc' = "rejected"
              /\ uerr' = RequiredError
              /\ puts' = <<>>
              /\ UNCHANGED tokenVars
         ELSE /\ upc' = "put"
              /\ uerr' = NoError
              /\ getPortalToken(1, a.tenant[1])
              /\ puts' = << Put(Text(a.callId), "[object Promise]", a.value,
                                Coalesce(ACCOUNT_ID_HEADER, a.tenant)) >>

\* updateCallDisposition(tenant, callId, value) up to its first await
updateCallDisposition(a, who) ==
    /\ uargs' = a
    /\ ucaller' = who
    /\ acquired' = <<>>
    /\ puts' = <<>>
    /\ IF ~TruthyStr(a.tenant) \/ ~TruthyStr(a.callId)
         THEN /\ upc' = "rejected"
              /\ uerr' = RequiredError
              /\ UNCHANGED tokenVars
         ELSE /\ upc' = "token"
              /\ uerr' = NoError
              /\ getPortalToken(1, a.tenant[1])

\* await getPortalToken(tenant) returned: the PUT is built and sent
TokenReturns ==
    /\ upc = "token"
    /\ pc[1] = "returned"
    /\ LET token == result[1].value
       IN  /\ acquired' = Append(acquired,
                                 [tenant |-> tenant[1], token |-> token])
           /\ puts' = Append(puts, Put(Text(uargs.callId), token, uargs.value,
                                       Coalesce(ACCOUNT_ID_HEADER, uargs.tenant)))
    /\ upc' = "put"
    /\ CallerResumes(1)
    /\ UNCHANGED <<uargs, ucaller, uerr, handlerVars, posts>>

\* await getPortalToken(tenant) threw: the invocation rejects with the error
TokenFails ==
    /\ upc = "token"
    /\ pc[1] = "failed"
    /\ upc' = "rejected"
    /\ uerr' = result[1].value
    /\ CallerResumes(1)
    /\ UNCHANGED <<uargs, ucaller, acquired, puts, handlerVars, posts>>

\* await axios.put resolved: the invocation resolves
PutResolves ==
    /\ upc = "put"
    /\ upc' = "resolved"
    /\ UNCHANGED <<uargs, ucaller, uerr, acquired, puts, handlerVars, posts>>
    /\ UNCHANGED tokenVars

\* await axios.put rejected: the invocation rejects with the error
PutRejects(err) ==
    /\ upc = "put"
    /\ upc' = "rejected"
    /\ uerr' = err
    /\ UNCHANGED <<uargs, ucaller, acquired, puts, handlerVars, posts>>
    /\ UNCHANGED tokenVars

\* another module invokes the exported updateCallDisposition
DirectCall(a) ==
    /\ hpc \in {"idle", "responded"}
    /\ upc \in {"idle", "resolved", "rejected"}
    /\ posts' = posts + 1
    /\ updateCallDisposition(a, "direct")
    /\ UNCHANGED handlerVars

-----------------------------------------------------------------------------
(* webhook.js: POST /webhook *)

\* faulty variant: disposition_2 is not checked
Required_Lenient(data) ==
    /\ TruthyNum(data.recordId)
    /\ TruthyStr(data.call_type)
    /\ TruthyStr(data.disposition_1)

\* recordId && call_type && disposition_1 && disposition_2
Required(data) ==
    /\ TruthyNum(data.recordId)
    /\ TruthyStr(data.call_type)
    /\ TruthyStr(data.disposition_1)
    /\ TruthyStr(data.disposition_2)

\* `${call_type} - ${disposition_1} - ${disposition_2_custom or disposition_2}`
combinedDisposition(data) ==
    << Text(data.call_type), " - ", Text(data.disposition_1), " - ",
       IF TruthyStr(data.disposition_2_custom)
         THEN Text(data.disposition_2_custom)
         ELSE Text(data.disposition_2) >>

SuccessBody == "{success: true, message: 'Disposition updated successfully'}"
MissingBody == "{error: 'Missing required disposition data'}"
ServerErrorBody == "{error: 'Internal Server Error'}"

\* res.json(body) with the status set before
Respond(status, body) ==
    /\ hpc' = "responded"
    /\ response' = Json(status, body)

\* processWebhookPostData(req.body, res) up to its first await
processWebhookPostData(data) ==
    /\ hpc \in {"idle", "responded"}
    /\ upc \in {"idle", "resolved", "rejected"}
    /\ posts' = posts + 1
    /\ hdata' = data
    /\ logged' = <<>>
    /\ updated' = FALSE
    /\ notified' = FALSE
    /\ IF Required(data)
         THEN /\ hpc' = "updating"
              /\ response' = NoResponse
         ELSE Respond(400, MissingBody)
    /\ upc' = "idle"
    /\ uargs' = NoArgs
    /\ uerr' = NoError
    /\ acquired' = <<>>
    /\ puts' = <<>>
    /\ UNCHANGED <<ucaller, rows>>
    /\ UNCHANGED tokenVars

\* await pool.execute(updateSql, ...) resolved; then the notification, if
\* tenant and callId were given, else the response
DbResolves ==
    /\ hpc = "updating"
    /\ rows' = [id \in DOMAIN rows |->
                  IF Some(id) = hdata.recordId
                    THEN Row(hdata.call_type, hdata.disposition_1,
                             hdata.disposition_2,
                             Or(hdata.disposition_2_custom, Absent))
                    ELSE rows[id]]
    /\ updated' = TRUE
    /\ IF TruthyStr(hdata.tenant) /\ TruthyStr(hdata.callId)
         THEN /\ hpc' = "notifying"
              /\ notified' = TRUE
              /\ updateCallDisposition(
                   Args(hdata.tenant, hdata.callId, combinedDisposition(hdata)),
                   "webhook")
              /\ UNCHANGED <<response, logged>>
         ELSE /\ Respond(200, SuccessBody)
              /\ UNCHANGED <<helperVars, notified, logged>>
              /\ UNCHANGED tokenVars
    /\ UNCHANGED <<hdata, posts>>

\* await pool.execute(updateSql, ...) rejected: the outer catch
DbRejects(err) ==
    /\ hpc = "updating"
    /\ logged' = Append(logged, <<"Webhook POST error:", err>>)
    /\ Respond(500, ServerErrorBody)
    /\ UNCHANGED <<hdata, rows, updated, notified, helperVars, posts>>
    /\ UNCHANGED tokenVars

\* faulty variant: the inner try/catch is missing, a failed notification
\* reaches the outer catch
NotifyReturns_Abort ==
    /\ hpc = "notifying"
    /\ ucaller = "webhook"
    /\ upc \in {"resolved", "rejected"}
    /\ IF upc = "rejected"
         THEN /\ logged' = Append(logged, <<"Webhook POST error:", uerr>>)
              /\ Respond(500, ServerErrorBody)
         ELSE /\ logged' = logged
              /\ Respond(200, SuccessBody)
    /\ UNCHANGED <<hdata, rows, updated, notified, helperVars, posts>>
    /\ UNCHANGED tokenVars

\* await updateCallDisposition(...) settled: a rejection is logged by the
\* inner catch; then res.json({ success: true, ... })
NotifyReturns ==
    /\ hpc = "notifying"
    /\ ucaller = "webhook"
    /\ upc \in {"resolved", "rejected"}
    /\ logged' = IF upc = "rejected"
                   THEN Append(logged,
                          <<"Failed to push disposition to VoiceMeetMe:", uerr>>)
                   ELSE logged
    /\ Respond(200, SuccessBody)
    /\ UNCHANGED <<hdata, rows, updated, notified, helperVars, posts>>
    /\ UNCHANGED tokenVars

\* POST /webhook requests and direct invocations of the helper, one at a
\* time; the helper's getPortalToken call is call 1 of the token service
NextWebhook ==
    \/ \E data \in PostBodies :
         posts < MaxRequests /\ processWebhookPostData(data)
                             /\ UNCHANGED <<sslVars, siteVars>>
    \/ DbResolves /\ UNCHANGED <<sslVars, siteVars>>
    \/ \E err \in DbRejections : DbRejects(err) /\ UNCHANGED <<sslVars, siteVars>>
    \/ NotifyReturns /\ UNCHANGED <<sslVars, siteVars>>
    \/ \E a \in DirectArgs :
         posts < MaxRequests /\ DirectCall(a) /\ UNCHANGED <<sslVars, siteVars>>
    \/ \E data \in Responses :
         PostResolves(1, data) /\ UNCHANGED <<hookVars, sslVars, siteVars>>
    \/ \E err \in Rejections :
         PostRejects(1, err) /\ UNCHANGED <<hookVars, sslVars, siteVars>>
    \/ TimerFires(1) /\ UNCHANGED <<hookVars, sslVars, siteVars>>
    \/ TokenReturns /\ UNCHANGED <<sslVars, siteVars>>
    \/ TokenFails /\ UNCHANGED <<sslVars, siteVars>>
    \/ PutResolves /\ UNCHANGED <<sslVars, siteVars>>
    \/ \E err \in PutRejections : PutRejects(err) /\ UNCHANGED <<sslVars, siteVars>>

SpecWebhook == Init /\ [][NextWebhook]_vars

-----------------------------------------------------------------------------
(* ssl-manager.js *)

NaN == Absent

Digit ==
    "0" :> 0 @@ "1" :> 1 @@ "2" :> 2 @@ "3" :> 3 @@ "4" :> 4 @@
    "5" :> 5 @@ "6" :> 6 @@ "7" :> 7 @@ "8" :> 8 @@ "9" :> 9

\* the digits of s from position i on, read onto acc: <<value, next position>>
RECURSIVE ParseDigits(_, _, _)
ParseDigits(s, i, acc) ==
    IF i <= Len(s) /\ s[i] \in DOMAIN Digit
      THEN ParseDigits(s, i + 1, acc * 10 + Digit[s[i]])
      ELSE <<acc, i>>

\* parseInt(arg) in radix 10: an optional sign, then the leading digits; NaN
\* when there is none (or arg is undefined). None of Argvs starts with white
\* space or 0x.
parseInt(arg) ==
    IF arg = Absent
      THEN NaN
      ELSE LET s == arg[1]
               signed == Len(s) >= 1 /\ s[1] \in {"-", "+"}
               first == IF signed THEN 2 ELSE 1
               r == ParseDigits(s, first, 0)
           IN  IF r[2] = first
                 THEN NaN
                 ELSE Some(IF signed /\ s[1] = "-" THEN 0 - r[1] ELSE r[1])

\* checkCertificateStatus() on the files fs at time t
checkCertificateStatus(fs, t) ==
    IF fs["cert.pem"] = Absent
      THEN Status(CertStatus.MISSING, Absent)
      ELSE IF ~fs["cert.pem"][1].parses
        THEN Status(CertStatus.INVALID, Absent)
        ELSE LET daysRemaining == (fs["cert.pem"][1].validTo - t) \div msPerDay
             IN  IF daysRemaining < 0
                   THEN Status(CertStatus.EXPIRED, Some(daysRemaining))
                   ELSE IF daysRemaining < WARNING_DAYS
                     THEN Status(CertStatus.EXPIRING_SOON, Some(daysRemaining))
                     ELSE Status(CertStatus.VALID, Some(daysRemaining))

\* the condition of the if in rotateCertificatesIfNeeded
NeedsRotation(st, daysThreshold) ==
    \/ st.status = CertStatus.EXPIRED
    \/ st.status = CertStatus.INVALID
    \/ st.status = CertStatus.MISSING
    \/ st.status = CertStatus.EXPIRING_SOON /\ st.daysRemaining[1] < daysThreshold

Returned(rotated, st) ==
    [kind |-> "return", rotated |-> rotated, status |-> st.status,
     daysRemaining |-> st.daysRemaining]

\* what getSSLOptions returns: { key: await readFile(privkey.pem), cert:
\* await readFile(fullchain.pem) }
Options(fs) ==
    [kind |-> "return", key |-> fs["privkey.pem"], cert |-> fs["fullchain.pem"]]

\* the error thrown, named by the line logged where it was first caught
Thrown(line) ==
    [kind |-> "throw", rotated |-> FALSE, status |-> line,
     daysRemaining |-> Absent]

\* faulty variant: the certificates are generated without a backup
rotateCertificatesIfNeeded_NoBackup(daysThreshold) ==
    LET st == checkCertificateStatus(files, today)
    IN  /\ sthreshold' = daysThreshold
        /\ sstatus' = st
        /\ sops' = <<>>
        /\ filesBefore' = files
        /\ IF NeedsRotation(st, daysThreshold)
             THEN /\ spc' = "generate"
                  /\ gstep' = 1
                  /\ sresult' = NoResult
                  /\ UNCHANGED bidx
             ELSE /\ spc' = "done"
                  /\ sresult' = Returned(FALSE, st)
                  /\ UNCHANGED <<bidx, gstep>>
        /\ UNCHANGED <<today, files, backups, timeSteps>>

\* rotateCertificatesIfNeeded(daysThreshold) up to the first await that
\* follows the check of the status
rotateCertificatesIfNeeded(daysThreshold) ==
    LET st == checkCertificateStatus(files, today)
    IN  /\ sthreshold' = daysThreshold
        /\ sstatus' = st
        /\ sops' = <<>>
        /\ filesBefore' = files
        /\ IF NeedsRotation(st, daysThreshold)
             THEN /\ IF st.status # CertStatus.MISSING
                       THEN /\ spc' = "backup"
                            /\ bidx' = 0
                            /\ UNCHANGED gstep
                       ELSE /\ spc' = "generate"
                            /\ gstep' = 1
                            /\ UNCHANGED bidx
                  /\ sresult' = NoResult
             ELSE /\ spc' = "done"
                  /\ sresult' = Returned(FALSE, st)
                  /\ UNCHANGED <<bidx, gstep>>
        /\ UNCHANGED <<today, files, backups, timeSteps>>

\* case 'rotate': threshold = parseInt(process.argv[3]) || WARNING_DAYS
RotateCommand(arg) ==
    /\ spc = "idle"
    /\ rotations' = rotations + 1
    /\ srun' = "rotate"
    /\ LET parsed == parseInt(arg)
       IN  rotateCertificatesIfNeeded(
             IF TruthyNum(parsed) THEN parsed[1] ELSE WARNING_DAYS)

\* backupCertificates: await mkdir(backupDir, { recursive: true })
BackupMkdir ==
    /\ spc = "backup"
    /\ bidx = 0
    /\ backups' = Append(backups, [f \in FileNames |-> Absent])
    /\ bidx' = 1
    /\ sops' = Append(sops, <<"backup", "mkdir">>)
    /\ UNCHANGED <<today, files, spc, sthreshold, sstatus, sresult, gstep,
                   filesBefore, timeSteps, rotations, srun>>

\* backupCertificates: one iteration of the loop over CERT_FILES, a file
\* that exists is copied; after the last one the function returns and
\* generateCertificates() is called
BackupCopy ==
    /\ spc = "backup"
    /\ bidx \in 1..Len(CERT_FILES)
    /\ LET file == CERT_FILES[bidx]
       IN  IF files[file] # Absent
             THEN /\ backups' = [backups EXCEPT ![Len(backups)][file] = files[file]]
                  /\ sops' = Append(sops, <<"backup", file>>)
             ELSE UNCHANGED <<backups, sops>>
    /\ IF bidx = Len(CERT_FILES)
         THEN /\ spc' = "generate"
              /\ gstep' = 1
              /\ UNCHANGED bidx
         ELSE /\ bidx' = bidx + 1
              /\ UNCHANGED <<spc, gstep>>
    /\ UNCHANGED <<today, files, sthreshold, sstatus, sresult, filesBefore,
                   timeSteps, rotations, srun>>

\* backupCertificates: mkdir or copyFile rejected; the error is rethrown by
\* backupCertificates and by rotateCertificatesIfNeeded
BackupFails ==
    /\ spc = "backup"
    /\ spc' = "failed"
    /\ sresult' = Thrown("Error backing up certificates:")
    /\ UNCHANGED <<today, files, backups, sthreshold, sstatus, bidx, gstep,
                   sops, filesBefore, timeSteps, rotations, srun>>

\* generateCertificates(): openssl genrsa, req and x509 write privkey.pem and
\* cert.pem; then cert.pem is copied to chain.pem and to fullchain.pem; then
\* the status is checked again and the run returns
GenerateStep ==
    /\ spc = "generate"
    /\ LET pem == Some(Pem(today, DEFAULT_DAYS_VALID))
       IN  CASE gstep = 1 ->
                  /\ files' = [files EXCEPT !["privkey.pem"] = pem,
                                            !["cert.pem"] = pem]
                  /\ sops' = sops \o << <<"generate", "privkey.pem">>,
                                        <<"generate", "cert.pem">> >>
                  /\ gstep' = 2
                  /\ UNCHANGED <<spc, sresult>>
             [] gstep = 2 ->
                  /\ files' = [files EXCEPT !["chain.pem"] = files["cert.pem"]]
                  /\ sops' = Append(sops, <<"generate", "chain.pem">>)
                  /\ gstep' = 3
                  /\ UNCHANGED <<spc, sresult>>
             [] gstep = 3 ->
                  /\ files' = [files EXCEPT !["fullchain.pem"] = files["cert.pem"]]
                  /\ sops' = Append(sops, <<"generate", "fullchain.pem">>)
                  /\ spc' = "done"
                  /\ sresult' = IF srun = "getSSLOptions"
                                  THEN Options(files')
                                  ELSE Returned(TRUE, checkCertificateStatus(files', today))
                  /\ UNCHANGED gstep
    /\ UNCHANGED <<today, backups, sthreshold, sstatus, bidx, filesBefore,
                   timeSteps, rotations, srun>>

\* generateCertificates(): a command or a copy failed; when openssl fails
\* after genrsa (keyWritten) the new private key is already in place
GenerateFails(keyWritten) ==
    /\ spc = "generate"
    /\ keyWritten => gstep = 1
    /\ files' = IF keyWritten
                  THEN [files EXCEPT !["privkey.pem"] =
                                        Some(Pem(today, DEFAULT_DAYS_VALID))]
                  ELSE files
    /\ sops' = IF keyWritten
                 THEN Append(sops, <<"generate", "privkey.pem">>)
                 ELSE sops
    /\ spc' = "failed"
    /\ sresult' = Thrown("Error generating certificates:")
    /\ UNCHANGED <<today, backups, sthreshold, sstatus, bidx, gstep,
                   filesBefore, timeSteps, rotations, srun>>

\* the result is printed and the process ends, or the error is printed and
\* process.exit(1) ends it
ProcessExits ==
    /\ spc \in {"done", "failed"}
    /\ spc' = "idle"
    /\ sthreshold' = WARNING_DAYS
    /\ sstatus' = NoStatus
    /\ sresult' = NoResult
    /\ bidx' = 1
    /\ gstep' = 1
    /\ sops' = <<>>
    /\ filesBefore' = files
    /\ srun' = ""
    /\ UNCHANGED <<today, files, backups, timeSteps, rotations>>

\* time passes between two runs of the command
TimePasses(d) ==
    /\ spc = "idle"
    /\ timeSteps' = timeSteps + 1
    /\ today' = today + d
    /\ UNCHANGED <<files, backups, spc, sthreshold, sstatus, sresult, bidx,
                   gstep, sops, filesBefore, rotations, srun>>

\* between two runs cert.pem is removed (content Absent) or overwritten with
\* something X509Certificate does not parse
CertDamaged(content) ==
    /\ spc = "idle"
    /\ files["cert.pem"] # Absent
    /\ files["cert.pem"][1].parses
    /\ files' = [files EXCEPT !["cert.pem"] = content]
    /\ filesBefore' = files'
    /\ UNCHANGED <<today, backups, spc, sthreshold, sstatus, sresult, bidx,
                   gstep, sops, timeSteps, rotations, srun>>

\* runs of `ssl-manager.js rotate [threshold]`, one at a time
NextSsl ==
    \/ \E arg \in Argvs :
         rotations < MaxRotations /\ RotateCommand(arg)
                                  /\ UNCHANGED <<tokenVars, hookVars, siteVars>>
    \/ BackupMkdir /\ UNCHANGED <<tokenVars, hookVars, siteVars>>
    \/ BackupCopy /\ UNCHANGED <<tokenVars, hookVars, siteVars>>
    \/ BackupFails /\ UNCHANGED <<tokenVars, hookVars, siteVars>>
    \/ GenerateStep /\ UNCHANGED <<tokenVars, hookVars, siteVars>>
    \/ \E keyWritten \in BOOLEAN :
         GenerateFails(keyWritten) /\ UNCHANGED <<tokenVars, hookVars, siteVars>>
    \/ ProcessExits /\ UNCHANGED <<tokenVars, hookVars, siteVars>>
    \/ \E d \in TimeSteps :
         timeSteps < MaxTimeSteps /\ TimePasses(d)
                                  /\ UNCHANGED <<tokenVars, hookVars, siteVars>>
    \/ \E content \in {Absent, Some([validTo |-> 0, parses |-> FALSE])} :
         CertDamaged(content) /\ UNCHANGED <<tokenVars, hookVars, siteVars>>

SpecSsl == Init /\ [][NextSsl]_vars

\* getSSLOptions() up to its first await that follows the check of the
\* status: generateCertificates() when the status is neither valid nor
\* expiring_soon, the two readFile calls otherwise
getSSLOptions ==
    /\ spc = "idle"
    /\ rotations' = rotations + 1
    /\ srun' = "getSSLOptions"
    /\ LET st == checkCertificateStatus(files, today)
       IN  /\ sstatus' = st
           /\ sops' = <<>>
           /\ filesBefore' = files
           /\ IF st.status # CertStatus.VALID /\ st.status # CertStatus.EXPIRING_SOON
                THEN /\ spc' = "generate"
                     /\ gstep' = 1
                     /\ sresult' = NoResult
                ELSE /\ IF files["privkey.pem"] = Absent \/ files["fullchain.pem"] = Absent
                          THEN /\ spc' = "failed"
                               /\ sresult' = Thrown("Error getting SSL options:")
                          ELSE /\ spc' = "done"
                               /\ sresult' = Options(files)
                     /\ UNCHANGED gstep
    /\ UNCHANGED <<today, files, backups, sthreshold, bidx, timeSteps>>

\* the HTTPS server asks for its options and the rotate command is run, one
\* at a time, on the same SSL_DIR
NextSslServer ==
    \/ NextSsl
    \/ /\ rotations < MaxRotations
       /\ getSSLOptions
       /\ UNCHANGED <<tokenVars, hookVars, siteVars>>

SpecSslServer == Init /\ [][NextSslServer]_vars

-----------------------------------------------------------------------------
(* webhook.js: GET /webhook over the connection pool of form.js *)

\* the open connections no statement of a request other than g is
\* executing on
FreeConns(g) ==
    {k \in 1..Len(lastInsertId) :
       \A o \in Handlers \ {g} :
         gpc[o] \in {"inserting", "selecting"} => gconn[o] # k}

\* pool.execute(sql, params) of request g: the pool gives the statement one
\* of its free connections, whichever; it opens a connection, on which
\* LAST_INSERT_ID() is 0, when none is free and it has fewer than
\* connectionLimit. ids is LAST_INSERT_ID() per connection when the
\* statement is given
Execute(g, ids) ==
    IF FreeConns(g) # {}
      THEN /\ \E k \in FreeConns(g) : gconn' = [gconn EXCEPT ![g] = k]
           /\ lastInsertId' = ids
      ELSE /\ Len(ids) < connectionLimit
           /\ gconn' = [gconn EXCEPT ![g] = Len(ids) + 1]
           /\ lastInsertId' = Append(ids, 0)

\* processWebhookData(req.query, res) up to await pool.execute(INSERT ...)
GetWebhook(g, data) ==
    /\ gpc[g] = "idle"
    /\ gets' = gets + 1
    /\ gquery' = [gquery EXCEPT ![g] = data]
    /\ Execute(g, lastInsertId)
    /\ gpc' = [gpc EXCEPT ![g] = "inserting"]
    /\ ginserted' = [ginserted EXCEPT ![g] = 0]
    /\ gresponse' = [gresponse EXCEPT ![g] = NoGetResponse]
    /\ UNCHANGED forms

\* the INSERT was executed: the row has the next AUTO_INCREMENT id, which is
\* what LAST_INSERT_ID() now is on the connection that executed it; the
\* connection is released, and then comes await pool.execute('SELECT
\* LAST_INSERT_ID() as id')
InsertResolves(g) ==
    /\ gpc[g] = "inserting"
    /\ LET id == Len(forms) + 1
           cidnum == gquery[g].cidnum
       IN  /\ forms' = Append(forms,
                         FormRow("", IF TruthyStr(cidnum) THEN cidnum[1] ELSE "",
                                 "", "", ""))
           /\ ginserted' = [ginserted EXCEPT ![g] = id]
           /\ Execute(g, [lastInsertId EXCEPT ![gconn[g]] = id])
    /\ gpc' = [gpc EXCEPT ![g] = "selecting"]
    /\ UNCHANGED <<gquery, gresponse, gets>>

\* the SELECT was executed: recordId = result[0].id, res.redirect(...)
SelectResolves(g) ==
    /\ gpc[g] = "selecting"
    /\ gresponse' = [gresponse EXCEPT ![g] = Redirect(lastInsertId[gconn[g]])]
    /\ gpc' = [gpc EXCEPT ![g] = "responded"]
    /\ UNCHANGED <<forms, gquery, gconn, ginserted, lastInsertId, gets>>

\* a statement was rejected: catch (error), res.status(500)
StatementRejects(g) ==
    /\ gpc[g] \in {"inserting", "selecting"}
    /\ gresponse' = [gresponse EXCEPT ![g] = GetError]
    /\ gpc' = [gpc EXCEPT ![g] = "responded"]
    /\ UNCHANGED <<forms, gquery, gconn, ginserted, lastInsertId, gets>>

\* the response has gone out; the next request can arrive
GetEnds(g) ==
    /\ gpc[g] = "responded"
    /\ gpc' = [gpc EXCEPT ![g] = "idle"]
    /\ gquery' = [gquery EXCEPT ![g] = NoQuery]
    /\ gconn' = [gconn EXCEPT ![g] = 0]
    /\ ginserted' = [ginserted EXCEPT ![g] = 0]
    /\ gresponse' = [gresponse EXCEPT ![g] = NoGetResponse]
    /\ UNCHANGED <<forms, lastInsertId, gets>>

\* GET /webhook requests, several in flight
NextGet ==
    \/ \E g \in Handlers, data \in GetQueries :
         /\ gets < MaxGets
         /\ GetWebhook(g, data)
         /\ UNCHANGED <<tokenVars, hookVars, sslVars, formVars>>
    \/ \E g \in Handlers :
         InsertResolves(g) /\ UNCHANGED <<tokenVars, hookVars, sslVars, formVars>>
    \/ \E g \in Handlers :
         SelectResolves(g) /\ UNCHANGED <<tokenVars, hookVars, sslVars, formVars>>
    \/ \E g \in Handlers :
         StatementRejects(g) /\ UNCHANGED <<tokenVars, hookVars, sslVars, formVars>>
    \/ \E g \in Handlers :
         GetEnds(g) /\ UNCHANGED <<tokenVars, hookVars, sslVars, formVars>>

SpecGet == Init /\ [][NextGet]_vars


-----------------------------------------------------------------------------
(* form_ssl.js: POST /forms and PUT /forms/:id *)

\* !body.k
Falsy(body, k) == k \notin DOMAIN body \/ body[k] = ""

\* faulty variant: only a field that is not there counts as missing
MissingRequired_OnlyAbsent(data) == \E k \in RequiredFields : k \notin DOMAIN data

\* !company || !name || !contact_number || !email || !call_type ||
\* !disposition_1 || !disposition_2
MissingRequired(data) == \E k \in RequiredFields : Falsy(data, k)

\* faulty variant: a combination that is not configured has no address
getDispositionEmail_NoFallback(callType, disposition1, disposition2) ==
    LET found == {r \in disposition_config :
                    /\ r.call_type = callType
                    /\ r.disposition_1 = disposition1
                    /\ r.disposition_2 = disposition2}
    IN  IF found = {}
          THEN [email |-> "", isCustomInput |-> FALSE]
          ELSE LET row == CHOOSE r \in found : TRUE
               IN  [email |-> row.email_address,
                    isCustomInput |-> row.is_custom_input]

\* getDispositionEmail: the row of disposition_config for the combination
\* (the unique key allows one), or the fallback address
getDispositionEmail(callType, disposition1, disposition2) ==
    LET found == {r \in disposition_config :
                    /\ r.call_type = callType
                    /\ r.disposition_1 = disposition1
                    /\ r.disposition_2 = disposition2}
    IN  IF found = {}
          THEN [email |-> "info@spcfz.ae", isCustomInput |-> FALSE]
          ELSE LET row == CHOOSE r \in found : TRUE
               IN  [email |-> row.email_address,
                    isCustomInput |-> row.is_custom_input]

\* String.prototype.startsWith
StartsWith(s, prefix) ==
    Len(s) >= Len(prefix) /\ SubSeq(s, 1, Len(prefix)) = prefix

\* faulty variant: a payload of one key is not enough to suppress the email
touchesOnlyAfterFields_MoreThanOne(data) ==
    LET payloadKeys == DOMAIN data
    IN  /\ Cardinality(payloadKeys) > 1
        /\ \A k \in payloadKeys : StartsWith(Spell(k), Spell("after_"))

\* payloadKeys.length > 0 && payloadKeys.every(k => k.startsWith('after_'))
touchesOnlyAfterFields(data) ==
    LET payloadKeys == DOMAIN data
    IN  /\ payloadKeys # {}
        /\ \A k \in payloadKeys : StartsWith(Spell(k), Spell("after_"))

\* the route answers: res.sendStatus(status), or res.status(status).json(...)
Reply(status) ==
    /\ fpc' = "responded"
    /\ fresponse' = status

\* the end of both functions: return when targetEmail is empty, otherwise
\* await transporter.sendMail(mailOptions)
SendOrSkip(targetEmail, status) ==
    IF targetEmail = ""
      THEN Reply(status) /\ UNCHANGED mails
      ELSE /\ mails' = Append(mails, Mail(targetEmail, fid, "pending"))
           /\ fpc' = "mail"
           /\ UNCHANGED fresponse

\* POST /forms: handleFormSubmission(req.body) up to its first await, or to
\* the throw of the validation, which the route answers with 500
PostForms(data) ==
    /\ fpc = "idle"
    /\ submissions' = submissions + 1
    /\ fop' = "create"
    /\ fid' = 0
    /\ fdata' = data
    /\ ftarget' = ""
    /\ fbefore' = Before(mails, forms)
    /\ IF MissingRequired(data)
         THEN Reply(500)
         ELSE fpc' = "config" /\ fresponse' = 0
    /\ UNCHANGED <<forms, mails>>

\* the SELECT of getDispositionEmail was executed; then await
\* pool.execute(INSERT INTO forms_new ...)
ConfigResolves ==
    /\ fpc = "config"
    /\ ftarget' = getDispositionEmail(fdata.call_type, fdata.disposition_1,
                                      fdata.disposition_2).email
    /\ fpc' = "insert"
    /\ UNCHANGED <<forms, fop, fid, fdata, fresponse, fbefore, mails, submissions>>

\* the INSERT was executed; then await sendFinalSubmissionData(...)
InsertFormResolves ==
    /\ fpc = "insert"
    /\ forms' = Append(forms, FormRow(fdata.company, fdata.contact_number,
                                      fdata.call_type, fdata.disposition_1,
                                      fdata.disposition_2))
    /\ fid' = Len(forms) + 1
    /\ fpc' = "final"
    /\ UNCHANGED <<fop, fdata, ftarget, fresponse, fbefore, mails, submissions>>

\* sendFinalSubmissionData returned, the payload or, having caught an error,
\* null; then the email is sent or skipped
FinalReturns ==
    /\ fpc = "final"
    /\ SendOrSkip(ftarget, 201)
    /\ UNCHANGED <<forms, fop, fid, fdata, ftarget, fbefore, submissions>>

\* sendMail resolved: the function returns and the route answers
MailResolves ==
    /\ fpc = "mail"
    /\ mails' = [mails EXCEPT ![Len(mails)].outcome = "sent"]
    /\ Reply(IF fop = "create" THEN 201 ELSE 200)
    /\ UNCHANGED <<forms, fop, fid, fdata, ftarget, fbefore, submissions>>

\* faulty variant: the error of sendMail is thrown on
MailRejects_Throws ==
    /\ fpc = "mail"
    /\ mails' = [mails EXCEPT ![Len(mails)].outcome = "failed"]
    /\ Reply(500)
    /\ UNCHANGED <<forms, fop, fid, fdata, ftarget, fbefore, submissions>>

\* sendMail rejected: catch (error) logs it, the function returns and the
\* route answers
MailRejects ==
    /\ fpc = "mail"
    /\ mails' = [mails EXCEPT ![Len(mails)].outcome = "failed"]
    /\ Reply(IF fop = "create" THEN 201 ELSE 200)
    /\ UNCHANGED <<forms, fop, fid, fdata, ftarget, fbefore, submissions>>

\* a statement was rejected: the function throws, the route answers 500
FormDbRejects ==
    /\ fpc \in {"config", "insert", "lookup", "current", "update", "uconfig"}
    /\ Reply(500)
    /\ UNCHANGED <<forms, fop, fid, fdata, ftarget, fbefore, mails, submissions>>

\* PUT /forms/:id up to await getFormById(id)
PutForms(id, data) ==
    /\ fpc = "idle"
    /\ submissions' = submissions + 1
    /\ fop' = "update"
    /\ fid' = id
    /\ fdata' = data
    /\ ftarget' = ""
    /\ fbefore' = Before(mails, forms)
    /\ fpc' = "lookup"
    /\ fresponse' = 0
    /\ UNCHANGED <<forms, mails>>

\* getFormById of the route returned: 404 when there is no such row,
\* otherwise updateFormSubmission(id, req.body) up to its getFormById
LookupResolves ==
    /\ fpc = "lookup"
    /\ IF fid \in 1..Len(forms)
         THEN fpc' = "current" /\ UNCHANGED fresponse
         ELSE Reply(404)
    /\ UNCHANGED <<forms, fop, fid, fdata, ftarget, fbefore, mails, submissions>>

\* getFormById of updateFormSubmission returned: throw when there is no such
\* row, otherwise await pool.execute(UPDATE forms_new ...)
CurrentResolves ==
    /\ fpc = "current"
    /\ IF fid \in 1..Len(forms)
         THEN fpc' = "update" /\ UNCHANGED fresponse
         ELSE Reply(500)
    /\ UNCHANGED <<forms, fop, fid, fdata, ftarget, fbefore, mails, submissions>>

\* the UPDATE was executed, each column set to the value of the body or,
\* where the body has none, to that of the current row; then the decision
\* whether an email is required
UpdateResolves ==
    /\ fpc = "update"
    /\ LET current == forms[fid]
       IN  forms' = [forms EXCEPT ![fid] =
                       [k \in DOMAIN current |->
                          IF k \in DOMAIN fdata THEN fdata[k] ELSE current[k]]]
    /\ IF touchesOnlyAfterFields(fdata)
         THEN Reply(200)
         ELSE fpc' = "uconfig" /\ UNCHANGED fresponse
    /\ UNCHANGED <<fop, fid, fdata, ftarget, fbefore, mails, submissions>>

\* the SELECT of getDispositionEmail was executed for the updated
\* combination; then the email is sent or skipped
UConfigResolves ==
    /\ fpc = "uconfig"
    /\ LET row == forms[fid]
           targetEmail == getDispositionEmail(row.call_type, row.disposition_1,
                                              row.disposition_2).email
       IN  /\ ftarget' = targetEmail
           /\ SendOrSkip(targetEmail, 200)
    /\ UNCHANGED <<forms, fop, fid, fdata, fbefore, submissions>>

\* the response has gone out; the next request can arrive
FormEnds ==
    /\ fpc = "responded"
    /\ fpc' = "idle"
    /\ fop' = "create"
    /\ fid' = 0
    /\ fdata' = NoFormBody
    /\ ftarget' = ""
    /\ fresponse' = 0
    /\ fbefore' = Before(<<>>, <<>>)
    /\ UNCHANGED <<forms, mails, submissions>>

\* requests to the form server, one at a time
NextForms ==
    \/ \E data \in FormBodies :
         /\ submissions < MaxSubmissions
         /\ PostForms(data)
         /\ UNCHANGED <<tokenVars, hookVars, sslVars, getVars>>
    \/ ConfigResolves /\ UNCHANGED <<tokenVars, hookVars, sslVars, getVars>>
    \/ InsertFormResolves /\ UNCHANGED <<tokenVars, hookVars, sslVars, getVars>>
    \/ FinalReturns /\ UNCHANGED <<tokenVars, hookVars, sslVars, getVars>>
    \/ MailResolves /\ UNCHANGED <<tokenVars, hookVars, sslVars, getVars>>
    \/ MailRejects /\ UNCHANGED <<tokenVars, hookVars, sslVars, getVars>>
    \/ FormDbRejects /\ UNCHANGED <<tokenVars, hookVars, sslVars, getVars>>
    \/ \E id \in UpdateIds, data \in UpdateBodies :
         /\ submissions < MaxSubmissions
         /\ PutForms(id, data)
         /\ UNCHANGED <<tokenVars, hookVars, sslVars, getVars>>
    \/ LookupResolves /\ UNCHANGED <<tokenVars, hookVars, sslVars, getVars>>
    \/ CurrentResolves /\ UNCHANGED <<tokenVars, hookVars, sslVars, getVars>>
    \/ UpdateResolves /\ UNCHANGED <<tokenVars, hookVars, sslVars, getVars>>
    \/ UConfigResolves /\ UNCHANGED <<tokenVars, hookVars, sslVars, getVars>>
    \/ FormEnds /\ UNCHANGED <<tokenVars, hookVars, sslVars, getVars>>

SpecForms == Init /\ [][NextForms]_vars


-----------------------------------------------------------------------------
(* Properties *)

\* the cache entries stored for tenant t
EntriesOf(m, t) == {e \in m : e.key = <<"portal", t>>}

\* caller c enters getPortalToken(t) in this step
Enters(c, t) == pc[c] = "idle" /\ pc'[c] # "idle" /\ tenant'[c] = t

\* a JSON string field that is present and not empty
HasText(o) == o # <<>> /\ o[1] # ""

\* the order in which a call that never succeeds posts to the endpoints
FullOrder ==
    << "/api/v2/config/login/oauth", "/api/v2/config/login/oauth",
       "/api/v2/config/login/oauth",
       "/api/v2/login", "/api/v2/login", "/api/v2/login",
       "/api/login", "/api/login", "/api/login" >>

\* C1: a call entered while the cache holds an entry for the tenant whose
\* expiresAt is more than 2 minutes (120000 ms) after the current time returns
\* that entry's access token in the same step and posts nothing.
C1_FreshEntryIsServed ==
    [][\A c \in Callers, t \in Tenants :
         \A e \in EntriesOf(cache, t) :
           (Enters(c, t) /\ now < e.value.expiresAt - 120000)
             => /\ pc'[c] = "returned"
                /\ result'[c] = [kind |-> "return", value |-> e.value.access]
                /\ requests'[c] = <<>>
                /\ cache' = cache]_vars

\* C1 witness: login at time 0 answered {accessToken: "abc", expiresIn: 3600};
\* a second call 10 seconds later has returned "abc" without a request.
C1_Witness ==
    /\ now = 10000
    /\ started = 2
    /\ \E e \in EntriesOf(cache, "acme") :
         e.value.access = "abc" /\ e.value.expiresAt = 3600000
    /\ pc[1] = "returned"
    /\ tenant[1] = "acme"
    /\ result[1] = [kind |-> "return", value |-> "abc"]
    /\ requests[1] = <<>>

\* C2: a call entered while the tenant has no entry, or while the current time
\* is within 2 minutes of or past the entry's expiresAt, posts to the first
\* candidate in the same step; a call that then returns from a response leaves
\* exactly one entry for the tenant, holding the token it returns.
C2_MissPostsToFirstCandidate ==
    [][\A c \in Callers :
         /\ \A t \in Tenants :
              ( /\ Enters(c, t)
                /\ \A e \in EntriesOf(cache, t) :
                     now >= e.value.expiresAt - 120000 )
                => /\ pc'[c] = "awaiting"
                   /\ requests'[c] = << "/api/v2/config/login/oauth" >>
         /\ (pc[c] = "awaiting" /\ pc'[c] = "returned")
              => \E e \in cache' :
                   /\ EntriesOf(cache', tenant[c]) = {e}
                   /\ e.value.access = result'[c].value
                   /\ e.value.expiresAt > now]_vars

\* C2 witness: a call is in flight at the first candidate although the tenant
\* has an entry, because the clock is exactly 2 minutes before its expiresAt.
C2_Witness ==
    /\ pc[1] = "awaiting"
    /\ requests[1] = << "/api/v2/config/login/oauth" >>
    /\ \E e \in EntriesOf(cache, tenant[1]) : now = e.value.expiresAt - 120000

\* C3: the urls a call has posted to are an initial part of: 3 times oauth,
\* 3 times /api/v2/login, 3 times /api/login; every post but the first
\* follows a failed attempt; a call that failed has posted to the second
\* candidate.
C3_CandidatesInOrder ==
    \A c \in Callers :
      /\ Len(requests[c]) <= 9
      /\ \A i \in 1..Len(requests[c]) : requests[c][i] = FullOrder[i]
      /\ Len(requests[c]) > 0 => failures[c] >= Len(requests[c]) - 1
      /\ pc[c] = "failed"
           => \E i \in 1..Len(requests[c]) : requests[c][i] = "/api/v2/login"

\* C3 witness: after three failures at the first candidate the call is
\* posting to the second.
C3_Witness ==
    /\ pc[1] = "awaiting"
    /\ failures[1] = 3
    /\ requests[1] = << "/api/v2/config/login/oauth", "/api/v2/config/login/oauth",
                        "/api/v2/config/login/oauth", "/api/v2/login" >>

\* C4: a call whose 9 attempts (3 candidates, 3 attempts each) all failed has
\* failed with the error 'All portal login attempts failed - check
\* credentials/endpoints'.
C4_ExhaustionThrows ==
    \A c \in Callers :
      failures[c] = 9
        => /\ pc[c] = "failed"
           /\ result[c] =
                [kind |-> "throw",
                 value |-> "All portal login attempts failed - check credentials/endpoints"]

\* C4 witness: a call with 9 posts and 9 failures.
C4_Witness == failures[1] = 9 /\ Len(requests[1]) = 9

\* C5: the cache changes only in a step in which a call returns from a
\* response; a step in which an attempt fails or the call fails leaves the
\* cache as it was.
C5_CacheWrittenOnlyOnSuccess ==
    [][/\ cache' # cache
         => \E c \in Callers :
              /\ pc[c] = "awaiting"
              /\ pc'[c] = "returned"
              /\ result'[c].kind = "return"
       /\ \A c \in Callers :
            (failures'[c] > failures[c] \/ (pc[c] # "failed" /\ pc'[c] = "failed"))
              => cache' = cache]_vars

\* C5 witness: a call for a tenant that had an entry has failed, and the entry
\* is still there.
C5_Witness ==
    /\ pc[1] = "failed"
    /\ EntriesOf(cache, tenant[1]) # {}

\* C6: a step in which a 2xx response carrying neither accessToken nor
\* access_token is processed counts one failed attempt, leaves the cache
\* unchanged and does not surface 'No access token in response': on attempts
\* 1 and 2 the call sleeps and stays at the same candidate, on attempt 3 it
\* posts to the next candidate, and after the last candidate's attempt 3 it
\* fails with the exhaustion error.
C6_MissingTokenIsAFailedAttempt ==
    [][\A c \in Callers, data \in Responses :
         ( /\ data.accessToken = <<>>
           /\ data.access_token = <<>>
           /\ PostResolves(c, data) )
           => /\ cache' = cache
              /\ failures'[c] = failures[c] + 1
              /\ result'[c].value # "No access token in response"
              /\ attempt[c] < 2
                   => /\ pc'[c] = "sleeping"
                      /\ cand'[c] = cand[c]
                      /\ requests'[c] = requests[c]
              /\ (attempt[c] = 2 /\ cand[c] < 3)
                   => /\ pc'[c] = "awaiting"
                      /\ requests'[c] = Append(requests[c], candidates[cand[c] + 1])
              /\ (attempt[c] = 2 /\ cand[c] = 3)
                   => /\ pc'[c] = "failed"
                      /\ failures'[c] = 9]_vars

\* C6 witness: the call sleeps before its third attempt at a candidate, in the
\* catch block entered with the missing-token error.
C6_Witness ==
    /\ pc[1] = "sleeping"
    /\ caught[1] = "No access token in response"
    /\ attempt[1] = 1
    /\ cache = {}

\* C7: a step in which a response carrying an access token is processed ends
\* the call with that token and posts nothing; a call that has returned posts
\* nothing more.
C7_SuccessReturnsImmediately ==
    [][\A c \in Callers :
         /\ \A data \in Responses :
              ( /\ HasText(data.accessToken) \/ HasText(data.access_token)
                /\ PostResolves(c, data) )
                => /\ pc'[c] = "returned"
                   /\ requests'[c] = requests[c]
                   /\ result'[c].kind = "return"
                   /\ \/ /\ HasText(data.accessToken)
                         /\ result'[c].value = data.accessToken[1]
                      \/ /\ HasText(data.access_token)
                         /\ result'[c].value = data.access_token[1]
         /\ pc[c] = "returned"
              => (requests'[c] = requests[c] \/ pc'[c] = "idle")]_vars

\* C7 witness: a call has returned a token from its fifth post, after four
\* failed attempts.
C7_Witness ==
    /\ pc[1] = "returned"
    /\ failures[1] = 4
    /\ Len(requests[1]) = 5
    /\ result[1].kind = "return"

\* C8: a call that threw has 9 failed attempts behind it and threw the
\* exhaustion error; a call that returned settled with a token, whatever
\* number of its attempts failed; a call in flight has not settled.
C8_OnlyExhaustionIsSurfaced ==
    \A c \in Callers :
      /\ result[c].kind = "throw"
           => /\ failures[c] = 9
              /\ pc[c] = "failed"
              /\ result[c].value =
                   "All portal login attempts failed - check credentials/endpoints"
      /\ pc[c] = "failed" => result[c].kind = "throw"
      /\ pc[c] = "returned"
           => result[c].kind = "return" /\ result[c].value \in {"abc", "xyz"}
      /\ pc[c] \in {"idle", "awaiting", "sleeping"} => result[c].kind = "pending"

\* C8 witness: a call returned a token from its last possible attempt, after
\* 8 failed ones.
C8_Witness ==
    /\ pc[1] = "returned"
    /\ failures[1] = 8
    /\ result[1].kind = "return"

\* C9: the cache never holds two entries with the same key, and every key is
\* the key of a tenant.
C9_OneEntryPerTenant ==
    /\ \A e1, e2 \in cache : e1.key = e2.key => e1 = e2
    /\ \A e \in cache : \E t \in Tenants : e.key = <<"portal", t>>

\* C9 witness: three calls have been made and the clock is still at 0, so no
\* call failed (a failed call has let six backoff timers pass). The third call
\* stored acme's entry. mc_int's entry, with expiresIn 120, was never fresh,
\* so no call was served by it: each of the first two calls stored an entry,
\* and one of the three stores replaced an entry of the same tenant.
C9_Witness ==
    /\ started = 3
    /\ now = 0
    /\ pc[1] = "returned"
    /\ tenant[1] = "acme"
    /\ requests[1] = << "/api/v2/config/login/oauth" >>
    /\ cache = { [key |-> <<"portal", "mc_int">>,
                  value |-> [access |-> "xyz", refresh |-> <<>>,
                             expiresAt |-> 120000]],
                 [key |-> <<"portal", "acme">>,
                  value |-> [access |-> "abc", refresh |-> <<>>,
                             expiresAt |-> 3600000]] }

\* C10: the backoff waits of a call are 1000 ms after the first failed attempt
\* at a candidate and 2000 ms after the second, and a sleeping call's timer is
\* due its last wait after the failure.
C10_BackoffDoubles ==
    \A c \in Callers :
      /\ \A i \in 1..Len(waits[c]) :
           waits[c][i] = IF i % 2 = 1 THEN 1000 ELSE 2000
      /\ pc[c] = "sleeping"
           => /\ waits[c] # <<>>
              /\ wakeAt[c] - waits[c][Len(waits[c])] <= now
              /\ waits[c][Len(waits[c])] = IF attempt[c] = 0 THEN 1000 ELSE 2000

\* C10 witness: a call sleeps 2000 ms after having slept 1000 ms.
C10_Witness ==
    /\ pc[1] = "sleeping"
    /\ waits[1] = <<1000, 2000>>

\* C11: a step in which a response carrying an access token is processed
\* stores, for the call's tenant, an expiry equal to the time of the response
\* plus 1000 ms per second of the response's expiresIn when the response has
\* an expiresIn field, and plus one hour (3600000 ms) when it has none.
C11_ExpiryFromResponse ==
    [][\A c \in Callers, data \in Responses :
         ( /\ HasText(data.accessToken) \/ HasText(data.access_token)
           /\ PostResolves(c, data) )
           => \E e \in EntriesOf(cache', tenant[c]) :
                e.value.expiresAt =
                  IF data.expiresIn # <<>>
                    THEN now + data.expiresIn[1] * 1000
                    ELSE now + 3600000]_vars

\* C12: a step in which a response with a non-empty accessToken or a
\* non-empty access_token is processed ends the call; the value of accessToken
\* when that is non-empty, and of access_token otherwise, is what the call
\* returns and what the cache then holds for the tenant.
C12_EitherFieldNameIsAccepted ==
    [][\A c \in Callers, data \in Responses :
         ( /\ HasText(data.accessToken) \/ HasText(data.access_token)
           /\ PostResolves(c, data) )
           => LET found == IF HasText(data.accessToken)
                             THEN data.accessToken[1]
                             ELSE data.access_token[1]
              IN  /\ pc'[c] = "returned"
                  /\ result'[c] = [kind |-> "return", value |-> found]
                  /\ \A e \in EntriesOf(cache', tenant[c]) :
                       e.value.access = found
                  /\ EntriesOf(cache', tenant[c]) # {}]_vars

\* C12 witness: the response {accessToken: "abc", access_token: "xyz",
\* refreshToken: "r1", expiresIn: 130} to the first post was processed: the
\* call returned "abc" and the cache holds "abc".
C12_Witness ==
    /\ pc[1] = "returned"
    /\ result[1] = [kind |-> "return", value |-> "abc"]
    /\ requests[1] = << "/api/v2/config/login/oauth" >>
    /\ \E e \in EntriesOf(cache, "acme") :
         /\ e.value.access = "abc"
         /\ e.value.refresh = <<"r1">>
         /\ e.value.expiresAt = now + 130000

\* C13: calls for one tenant are not de-duplicated: while the cache holds no
\* entry for the tenant, every call in progress for it has posted a login
\* request of its own, starting at the first candidate, however many other
\* calls for the tenant are in progress; two such calls are in flight at once
\* in the witness.
C13_NoSingleFlight ==
    \A c \in Callers, o \in Callers :
      ( /\ c # o
        /\ pc[c] # "idle"
        /\ pc[o] # "idle"
        /\ tenant[c] = tenant[o]
        /\ EntriesOf(cache, tenant[c]) = {} )
        => /\ requests[c] # <<>>
           /\ requests[o] # <<>>
           /\ Head(requests[c]) = candidates[1]
           /\ Head(requests[o]) = candidates[1]

\* C13 witness: two calls for "acme" entered while the cache was empty, and
\* the login requests of both are outstanding at the same time.
C13_Witness ==
    /\ cache = {}
    /\ started = 2
    /\ pc[1] = "awaiting"
    /\ pc[2] = "awaiting"
    /\ tenant[1] = "acme"
    /\ tenant[2] = "acme"
    /\ requests[1] = << "/api/v2/config/login/oauth" >>
    /\ requests[2] = << "/api/v2/config/login/oauth" >>

\* the login requests of call c that have been issued and not yet answered:
\* those posted, less those that ended in the catch block, less the one whose
\* response the call returned from
Outstanding(c) ==
    Len(requests[c]) - failures[c]
      - (IF pc[c] = "returned" /\ requests[c] # <<>> THEN 1 ELSE 0)

\* C14: a call has at most one login request outstanding, and exactly one
\* while it awaits a response. A step posts at most one request for a call,
\* and only when the call has none outstanding after the step's own
\* completion of the previous one: at entry, or in the step that processes the
\* third failure at a candidate (the post then goes to the next candidate), or
\* when the backoff timer fires, which is the only way a call posts again to
\* the same candidate, and not before the timer's deadline.
C14_OneRequestOutstanding ==
    [][\A c \in Callers :
         /\ Outstanding(c)' \in {0, 1}
         /\ (Outstanding(c)' = 1) <=> (pc'[c] = "awaiting")
         /\ Len(requests'[c]) > Len(requests[c])
              => /\ Len(requests'[c]) = Len(requests[c]) + 1
                 /\ \/ /\ pc[c] = "idle"
                       /\ requests[c] = <<>>
                    \/ /\ pc[c] = "awaiting"
                       /\ failures'[c] = failures[c] + 1
                       /\ attempt[c] = 2
                       /\ cand'[c] = cand[c] + 1
                    \/ /\ pc[c] = "sleeping"
                       /\ Outstanding(c) = 0
                       /\ wakeAt[c] <= now'
                       /\ cand'[c] = cand[c]
                       /\ attempt'[c] = attempt[c] + 1]_vars

\* C14 witness: while another call's first request is outstanding, a call
\* awaits its second attempt at the first candidate, posted when its 1000 ms
\* backoff had elapsed.
C14_Witness ==
    /\ pc[1] = "awaiting"
    /\ requests[1] = << "/api/v2/config/login/oauth",
                        "/api/v2/config/login/oauth" >>
    /\ failures[1] = 1
    /\ waits[1] = <<1000>>
    /\ now = 1000
    /\ pc[2] = "awaiting"
    /\ requests[2] = << "/api/v2/config/login/oauth" >>

\* C15: no step removes a tenant's cache entry: a tenant that has an entry
\* before a step has one after it, whether the step is a call's entry, a
\* successful login for this or another tenant, a failed attempt or the
\* failure of a call.
C15_EntriesAreNeverDeleted ==
    [][\A t \in Tenants :
         EntriesOf(cache, t) # {} => EntriesOf(cache', t) # {}]_vars

\* C15 witness: "mc_int" and "acme" each got an entry; a later call for
\* "mc_int", whose entry was no longer fresh, failed on all nine attempts; both
\* entries are still there.
C15_Witness ==
    /\ started = 3
    /\ pc[1] = "failed"
    /\ tenant[1] = "mc_int"
    /\ failures[1] = 9
    /\ \E e \in EntriesOf(cache, "mc_int") : e.value.access = "xyz"
    /\ \E e \in EntriesOf(cache, "acme") : e.value.access = "abc"

\* C16: an invocation of updateCallDisposition issues at most one PUT, and
\* only after its getPortalToken call has returned: every PUT issued has one
\* acquisition for the invocation's tenant behind it, the acquisition's call
\* has ended, and the PUT's Authorization header is "Bearer " followed by the
\* token that call returned, which is the token the cache holds for the
\* tenant. An invocation whose acquisition threw the exhaustion error, and an
\* invocation whose tenant or callId is missing or empty, has rejected without
\* a PUT; the latter without an acquisition either.
C16_TokenBeforePut ==
    /\ Len(puts) <= 1
    /\ Len(puts) = Len(acquired)
    /\ \A i \in 1..Len(puts) :
         /\ TruthyStr(uargs.tenant)
         /\ TruthyStr(uargs.callId)
         /\ acquired[i].tenant = uargs.tenant[1]
         /\ puts[i].authorization = <<"Bearer ", acquired[i].token>>
         /\ \E e \in EntriesOf(cache, uargs.tenant[1]) :
              puts[i].authorization = <<"Bearer ", e.value.access>>
         /\ puts[i].url[2] = uargs.callId[1]
         /\ pc[1] = "idle"
    /\ (upc = "put") => (Len(puts) = 1)
    /\ (upc = "token") => (puts = <<>> /\ pc[1] # "idle")
    /\ (upc = "rejected" /\ uerr = ExhaustedError)
         => (puts = <<>> /\ acquired = <<>>)
    /\ (upc # "idle" /\ (~TruthyStr(uargs.tenant) \/ ~TruthyStr(uargs.callId)))
         => /\ upc = "rejected"
            /\ uerr = RequiredError
            /\ puts = <<>>
            /\ acquired = <<>>

\* C16 witness: a direct invocation for tenant "acme" and call "c42" awaits
\* its PUT, sent with the token "xyz" that getPortalToken returned after two
\* failed login attempts.
C16_Witness ==
    /\ upc = "put"
    /\ ucaller = "direct"
    /\ uargs.tenant = <<"acme">>
    /\ uargs.callId = <<"c42">>
    /\ acquired = << [tenant |-> "acme", token |-> "xyz"] >>
    /\ now = 3000
    /\ Len(puts) = 1
    /\ puts[1].authorization = <<"Bearer ", "xyz">>
    /\ puts[1].url = <<"/api/v2/config/campaigns/call/", "c42", "/disposition">>

\* C17: a POST /webhook request whose UPDATE was executed and that has been
\* answered was answered 200 {success: true, ...}, also when its notification
\* rejected, with the exhaustion error of the token acquisition or with the
\* error of the PUT; the rejection was then logged as 'Failed to push
\* disposition to VoiceMeetMe:' with the error's message, and nothing else was
\* logged.
C17_NotificationFailureIsNotFatal ==
    /\ (hpc = "responded" /\ updated) => response = Json(200, SuccessBody)
    /\ (hpc = "responded" /\ notified /\ ucaller = "webhook")
         => /\ updated
            /\ upc \in {"resolved", "rejected"}
            /\ logged = IF upc = "rejected"
                          THEN << <<"Failed to push disposition to VoiceMeetMe:",
                                    uerr>> >>
                          ELSE <<>>
    /\ (hpc = "notifying") => (updated /\ response = NoResponse)

\* C17 witness: the request's UPDATE was executed, its notification failed on
\* all nine login attempts, the failure was logged and the request answered
\* with success.
C17_Witness ==
    /\ hpc = "responded"
    /\ updated
    /\ notified
    /\ ucaller = "webhook"
    /\ upc = "rejected"
    /\ uerr = ExhaustedError
    /\ puts = <<>>
    /\ logged = << <<"Failed to push disposition to VoiceMeetMe:",
                     ExhaustedError>> >>
    /\ response = Json(200, SuccessBody)

\* C18: a POST /webhook request whose body lacks recordId, call_type,
\* disposition_1 or disposition_2 is answered 400 in the step that receives
\* it, without the UPDATE and without a call of updateCallDisposition. A
\* request calls updateCallDisposition only with tenant and callId both
\* present, and only once its UPDATE was executed; a request without tenant or
\* without callId never calls it.
C18_ValidationBeforeUpdateAndNotification ==
    /\ ( /\ hpc # "idle"
         /\ \/ hdata.recordId = <<>>
            \/ hdata.call_type = <<>>
            \/ hdata.disposition_1 = <<>>
            \/ hdata.disposition_2 = <<>> )
         => /\ hpc = "responded"
            /\ response = Json(400, MissingBody)
            /\ ~updated
            /\ ~notified
    /\ notified
         => /\ hdata.tenant # <<>>
            /\ hdata.callId # <<>>
            /\ updated
    /\ (hpc \in {"notifying"}) => (notified /\ ucaller = "webhook")

\* C18 witness: a request with everything but disposition_2 was answered 400;
\* the row is as it was inserted.
C18_Witness ==
    /\ hpc = "responded"
    /\ hdata.recordId = <<7>>
    /\ hdata.call_type = <<"Inbound">>
    /\ hdata.disposition_1 = <<"Sales">>
    /\ hdata.disposition_2 = <<>>
    /\ hdata.tenant = <<"acme">>
    /\ hdata.callId = <<"c42">>
    /\ response = Json(400, MissingBody)
    /\ rows[7] = Row(<<"">>, <<"">>, <<"">>, <<>>)
    /\ ~updated
    /\ ~notified

\* the run has written to a certificate file
Generated == \E i \in 1..Len(sops) : sops[i][1] = "generate"

\* C19: a run of rotateCertificatesIfNeeded(daysThreshold) that found the
\* certificate expired, invalid or missing, or with fewer days remaining than
\* daysThreshold, does not end with "No rotation needed" (rotated = false),
\* whatever threshold the command line gave.
C19_RotatesBelowThreshold ==
    ( /\ spc = "done"
      /\ \/ sstatus.status \in {"expired", "invalid", "missing"}
         \/ /\ sstatus.daysRemaining # <<>>
            /\ sstatus.daysRemaining[1] < sthreshold )
      => sresult.rotated

\* C20: in a run of rotateCertificatesIfNeeded every write of the backup
\* precedes every write of the generation. A run that found a certificate in
\* need of rotation writes to a certificate file only when the newest backup
\* directory holds a copy of every file as it was when the run started; a run
\* whose backup failed has thrown, has written to no certificate file and has
\* left all of them as they were. A run that found no need of rotation has
\* returned rotated = false with the status it found, having written nothing.
C20_BackupBeforeGeneration ==
    /\ \A i \in 1..Len(sops), j \in 1..Len(sops) :
         (sops[i][1] = "backup" /\ sops[j][1] = "generate") => i < j
    /\ (Generated /\ sstatus.status # "missing")
         => /\ backups # <<>>
            /\ \A f \in FileNames : backups[Len(backups)][f] = filesBefore[f]
    /\ (spc = "failed" /\ sresult.status = "Error backing up certificates:")
         => /\ ~Generated
            /\ files = filesBefore
            /\ sresult.kind = "throw"
    /\ (spc = "backup") => (~Generated /\ files = filesBefore)
    /\ (spc \in {"backup", "generate", "done", "failed"}
          /\ ~NeedsRotation(sstatus, sthreshold))
         => /\ spc = "done"
            /\ sresult = [kind |-> "return", rotated |-> FALSE,
                          status |-> sstatus.status,
                          daysRemaining |-> sstatus.daysRemaining]
            /\ sops = <<>>
            /\ files = filesBefore

\* C20 witness: a run that found the certificate expired has returned
\* rotated = true; the backup directory holds the four files as they were and
\* the writes of the run are the backup directory and the four backup copies,
\* followed by the four generated files.
C20_Witness ==
    /\ spc = "done"
    /\ sresult.rotated
    /\ sstatus.status = "expired"
    /\ Len(backups) = 1
    /\ \A f \in FileNames :
         /\ backups[1][f] = filesBefore[f]
         /\ filesBefore[f] # <<>>
         /\ files[f] # filesBefore[f]
    /\ sops = << <<"backup", "mkdir">>, <<"backup", "cert.pem">>,
                 <<"backup", "chain.pem">>, <<"backup", "fullchain.pem">>,
                 <<"backup", "privkey.pem">>, <<"generate", "privkey.pem">>,
                 <<"generate", "cert.pem">>, <<"generate", "chain.pem">>,
                 <<"generate", "fullchain.pem">> >>

\* C25: every call comes to an end when its requests complete and its timers
\* fire: a call in progress eventually returns or fails. Until then it has
\* posted at most 9 login requests, at most 3 to each candidate, and slept at
\* most 6 times: one wait after each failed attempt that was not the third of
\* its candidate, the first of a candidate 1000 ms long.
C25_CallTerminates ==
    /\ [](\A c \in Sequential :
            /\ Len(requests[c]) <= 9
            /\ \A k \in 1..Len(candidates) :
                 Cardinality({i \in 1..Len(requests[c]) :
                                requests[c][i] = candidates[k]}) <= 3
            /\ Len(waits[c]) <= 6
            /\ Len(waits[c]) = failures[c] - failures[c] \div 3
            /\ \A i \in 1..Len(waits[c]) : i % 2 = 1 => waits[c][i] = BASE_DELAY)
    /\ \A c \in Sequential :
         (pc[c] \in {"awaiting", "sleeping"}) ~> (pc[c] \in {"returned", "failed"})

\* C25 witness: a call that missed the cache has failed after 9 requests and
\* 6 waits.
C25_Witness ==
    /\ pc[1] = "failed"
    /\ Len(requests[1]) = 9
    /\ Len(waits[1]) = 6
    /\ failures[1] = 9

\* C27: with calls for one tenant overlapping, a step in which a response
\* carrying an access token is processed returns that response's access token
\* to the call that posted the request, and leaves as the tenant's cache
\* entry the record made from that response (its token, its refresh token,
\* the expiry computed from it), whatever entry another call had stored
\* before: the response processed last is the one the cache holds.
C27_LastWriterWins ==
    [][\A c \in Callers :
         (pc[c] = "awaiting" /\ pc'[c] = "returned")
           => \A data \in Responses :
                ( /\ HasText(data.accessToken) \/ HasText(data.access_token)
                  /\ PostResolves(c, data) )
                  => LET found == IF HasText(data.accessToken)
                                    THEN data.accessToken[1]
                                    ELSE data.access_token[1]
                         kept == IF HasText(data.refreshToken)
                                   THEN data.refreshToken
                                   ELSE data.refresh_token
                     IN  /\ result'[c] = [kind |-> "return", value |-> found]
                         /\ \A o \in Callers \ {c} : result'[o] = result[o]
                         /\ EntriesOf(cache', tenant[c]) =
                              { [key |-> <<"portal", tenant[c]>>,
                                 value |-> [access |-> found, refresh |-> kept,
                                            expiresAt |-> ExpiresAt(data, now)]] }]_vars

\* C27 witness: both calls have returned from a response of their own to their
\* first request, call 1 with "abc" and call 2 with "xyz". The cache holds
\* "xyz", so the response of call 2 was processed last; its expiry, 120 s
\* after the response, is earlier than that of the entry it replaced (a
\* response with "abc" gives 130 s or more).
C27_Witness ==
    /\ \A c \in Callers : pc[c] = "returned" /\ Len(requests[c]) = 1
    /\ result[1] = [kind |-> "return", value |-> "abc"]
    /\ result[2] = [kind |-> "return", value |-> "xyz"]
    /\ EntriesOf(cache, "acme") =
         { [key |-> <<"portal", "acme">>,
            value |-> [access |-> "xyz", refresh |-> <<>>,
                       expiresAt |-> now + 120000]] }

\* C28: a token of a response whose expiresIn is 120 or less is never served
\* from the cache. getPortalToken serves the tenant's entry to a call exactly
\* when the time at which the call enters is before the entry's expiresAt less
\* 2 minutes, and the clock does not go back: so the step that stores such a
\* token leaves an entry that already fails this test.
C28_ShortLivedTokenIsNotServed ==
    [][\A c \in Callers, data \in Responses :
         ( /\ HasText(data.accessToken) \/ HasText(data.access_token)
           /\ data.expiresIn # <<>>
           /\ data.expiresIn[1] <= 120
           /\ PostResolves(c, data) )
           => \A e \in EntriesOf(cache', tenant[c]) :
                ~(now' < e.value.expiresAt - 120000)]_vars

\* C29: a step of a call for one tenant leaves the cache entry of every other
\* tenant as it was, whether the step stores a token, fails an attempt or
\* fails the call; and a call that returns without a request returns the
\* access token of the entry of its own tenant.
C29_TenantIsolation ==
    [][\A c \in Sequential :
         LET A == IF pc[c] = "idle" THEN tenant'[c] ELSE tenant[c]
         IN  /\ \A B \in Tenants \ {A} :
                  EntriesOf(cache', B) = EntriesOf(cache, B)
             /\ \A t \in Tenants :
                  (Enters(c, t) /\ pc'[c] = "returned")
                    => \E e \in EntriesOf(cache, t) :
                         result'[c] = [kind |-> "return",
                                       value |-> e.value.access]]_vars

\* C29 witness: a call for mc_int is waiting for the response to its login
\* request although the cache holds an entry for acme that is fresh; the
\* cache holds no entry for mc_int.
C29_Witness ==
    /\ pc[1] = "awaiting"
    /\ tenant[1] = "mc_int"
    /\ EntriesOf(cache, "mc_int") = {}
    /\ \E e \in EntriesOf(cache, "acme") : now < e.value.expiresAt - 120000

\* C30: a run that found the certificate expired or invalid writes to a
\* certificate file only after it has made a backup directory and copied to it
\* every certificate file that existed when the run started, whichever
\* function the run called.
C30_NoRegenerationWithoutBackup ==
    (Generated /\ sstatus.status \in {"expired", "invalid"})
      => /\ \E j \in 1..Len(sops) : sops[j] = <<"backup", "mkdir">>
         /\ backups # <<>>
         /\ \A f \in FileNames :
              filesBefore[f] # <<>>
                => /\ backups[Len(backups)][f] = filesBefore[f]
                   /\ \E i \in 1..Len(sops) :
                        /\ sops[i] = <<"backup", f>>
                        /\ \A k \in 1..Len(sops) :
                             sops[k][1] = "generate" => i < k

\* C26: the record id in the redirect of a GET /webhook request is the id of
\* the row that the INSERT of the same request made, also when another
\* request is in flight.
C26_RedirectsToOwnRow ==
    \A g \in Handlers :
      (gpc[g] = "responded" /\ gresponse[g].status = 302)
        => /\ ginserted[g] \in 1..Len(forms)
           /\ gresponse[g].id = ginserted[g]

\* the request in progress is a POST /forms whose body lacks one of the
\* seven required fields, or has it empty
LacksRequired ==
    /\ fpc # "idle"
    /\ fop = "create"
    /\ \E k \in {"company", "name", "contact_number", "email", "call_type",
                 "disposition_1", "disposition_2"} :
         k \notin DOMAIN fdata \/ fdata[k] = ""

\* the key starts with 'after_'
AfterKey(k) == StartsWith(Spell(k), <<"a", "f", "t", "e", "r", "_">>)

\* C21: a POST /forms whose call of sendMail was rejected is answered with
\* 201, as one whose mail was sent; the row that was inserted before the call
\* is in forms_new with the columns of the body.
C21_MailFailureIsNotFatal ==
    ( /\ fpc # "idle"
      /\ fop = "create"
      /\ Len(mails) > fbefore.mails
      /\ mails[Len(mails)].outcome = "failed" )
      => /\ fpc = "responded"
         /\ fresponse = 201
         /\ Len(forms) = fbefore.rows + 1
         /\ fid = Len(forms)
         /\ forms[fid] = [company |-> fdata.company,
                          contact_number |-> fdata.contact_number,
                          call_type |-> fdata.call_type,
                          disposition_1 |-> fdata.disposition_1,
                          disposition_2 |-> fdata.disposition_2]

\* C21 witness: the mail to cp.support@spcfz.ae of a submission was rejected;
\* the request was answered with 201 and its row is row 1.
C21_Witness ==
    /\ fpc = "responded"
    /\ fop = "create"
    /\ fresponse = 201
    /\ mails = << [to |-> "cp.support@spcfz.ae", form |-> 1, outcome |-> "failed"] >>
    /\ Len(forms) = 1
    /\ forms[1].disposition_2 = "CP_Support"

\* C22: a POST /forms whose body lacks a required field, or has it empty, is
\* answered with 500 at once: no row has been inserted and sendMail has not
\* been called since the request arrived.
C22_ValidationBeforeInsertAndMail ==
    LacksRequired
      => /\ fpc = "responded"
         /\ fresponse = 500
         /\ Len(forms) = fbefore.rows
         /\ Len(mails) = fbefore.mails
         /\ fid = 0

\* C22 witness: a body whose name is the empty string was answered with 500
\* after an earlier submission had been stored and notified; there is still
\* one row and one mail.
C22_Witness ==
    /\ fpc = "responded"
    /\ fop = "create"
    /\ "name" \in DOMAIN fdata
    /\ fdata.name = ""
    /\ fresponse = 500
    /\ Len(forms) = 1
    /\ Len(mails) = 1
    /\ fbefore = [mails |-> 1, rows |-> 1]


\* the rows of disposition_config for the disposition combination of the body
Configured(body) ==
    { r \in disposition_config : /\ r.call_type = body.call_type
                                 /\ r.disposition_1 = body.disposition_1
                                 /\ r.disposition_2 = body.disposition_2 }

\* the lookup of every row of disposition_config gives the address of that
\* row, and the rows with an empty address are the custom-input 'Others' rows
EveryRowIsFound ==
    \A r \in disposition_config :
      /\ getDispositionEmail(r.call_type, r.disposition_1, r.disposition_2).email
           = r.email_address
      /\ (r.email_address = "") <=> r.is_custom_input
      /\ r.is_custom_input => r.disposition_1 = "Others"

\* the mails for which sendMail was called since the request arrived
MailsOfRequest == SubSeq(mails, fbefore.mails + 1, Len(mails))

\* C23: a POST /forms that was answered with 201 has stored its row; when the
\* disposition combination of the body has a row in disposition_config with
\* an empty address (the custom-input 'Others' rows) sendMail was not called;
\* when it has a row with an address sendMail was called once, to that
\* address; when it has no row sendMail was called once, to info@spcfz.ae.
\* The rows with an empty address are the custom-input rows, and the lookup
\* of every row of the table gives the address of that row.
C23_MailGoesToConfiguredAddress ==
    /\ EveryRowIsFound
    /\ ( fpc = "responded" /\ fop = "create" /\ fresponse = 201 )
         => /\ Len(forms) = fbefore.rows + 1
            /\ forms[Len(forms)].disposition_2 = fdata.disposition_2
            /\ \A r \in Configured(fdata) :
                 IF r.email_address = ""
                   THEN MailsOfRequest = <<>>
                   ELSE /\ Len(MailsOfRequest) = 1
                        /\ MailsOfRequest[1].to = r.email_address
                        /\ MailsOfRequest[1].form = Len(forms)
                        /\ MailsOfRequest[1].outcome \in {"sent", "failed"}
            /\ Configured(fdata) = {}
                 => /\ Len(MailsOfRequest) = 1
                    /\ MailsOfRequest[1].to = "info@spcfz.ae"
                    /\ MailsOfRequest[1].form = Len(forms)

\* C23 witness: three submissions were stored: one with the custom-input
\* combination Complaints / Others / Others, for which no mail was sent, one
\* with a combination of cx@spcfz.ae, and one with a combination that is not
\* in disposition_config, whose mail went to info@spcfz.ae.
C23_Witness ==
    /\ fpc = "responded"
    /\ fresponse = 201
    /\ Len(forms) = 3
    /\ forms[1].disposition_1 = "Others"
    /\ forms[2].disposition_2 = "Application submission"
    /\ forms[3].call_type = "Query"
    /\ Configured(fdata) = {}
    /\ Len(mails) = 2
    /\ mails[1].form = 2
    /\ mails[1].to # "info@spcfz.ae"
    /\ mails[1].to # ""
    /\ mails[2] = [to |-> "info@spcfz.ae", form |-> 3, outcome |-> "sent"]

\* C24 as stated: while a PUT /forms/:id whose payload has no key that does
\* not start with 'after_' is handled, sendMail is not called.
C24_AfterOnlyUpdateSendsNoMail ==
    ( fpc # "idle" /\ fop = "update" /\ \A k \in DOMAIN fdata : AfterKey(k) )
      => MailsOfRequest = <<>>

\* C24, amended: while a PUT /forms/:id whose payload has at least one key,
\* and no key that does not start with 'after_', is handled, sendMail is not
\* called: the mails of the record are the ones that were sent before.
C24_NonEmptyAfterOnlyUpdateSendsNoMail ==
    ( /\ fpc # "idle"
      /\ fop = "update"
      /\ DOMAIN fdata # {}
      /\ \A k \in DOMAIN fdata : AfterKey(k) )
      => /\ MailsOfRequest = <<>>
         /\ fpc = "responded" => fresponse \in {200, 404, 500}

\* C24 witness: record 1 was created and its notification sent; then an update
\* of record 1 with after_disposition and after_follow_up_notes was answered
\* with 200, and the one mail of the record is the one of its creation.
C24_Witness ==
    /\ fpc = "responded"
    /\ fop = "update"
    /\ fid = 1
    /\ DOMAIN fdata = {"after_disposition", "after_follow_up_notes"}
    /\ fresponse = 200
    /\ Len(forms) = 1
    /\ mails = << [to |-> "cp.support@spcfz.ae", form |-> 1, outcome |-> "sent"] >>
    /\ fbefore.mails = 1

=============================================================================
